---- MODULE Spec2Model ----
(***************************************************************************)
(* A model of elo's schema-driven site package (src/unnamed/part_001):     *)
(* the branch hierarchy Show -> Category -> Group -> Unit -> Part -> Task  *)
(* over a filesystem, the scene naming and discovery, and the scene        *)
(* lifecycle runner.                                                       *)
(*                                                                         *)
(* A string is a sequence of one-character strings, so that split,         *)
(* startsWith, endsWith, parseInt and the default sort are computed the    *)
(* way the JavaScript runtime computes them. A path is a sequence of       *)
(* components from the filesystem root.                                    *)
(***************************************************************************)
EXTENDS Integers, Sequences, FiniteSets, TLC

VARIABLES
    platform,   \* process.platform
    siteInfo,   \* the schema loaded by Init (part_001:14)
    fs,         \* the filesystem: path -> [kind, perm, acl]
    made,       \* how many entries were made since the start
    held,       \* the branch object the caller holds (NoBranch at top level)
    last,       \* the last API call: [op, type, name, err, branch, list]
    scene,      \* the scene the last CreateTask or OpenTask computed
    ran,        \* the external command the last call started (NoExec: none)
    child,      \* the events the spawned process has emitted: [error, exit]
    stderr,     \* what spawn has collected of the child's standard error
    calls,      \* the calls of handleError, in order
    env,        \* process.env: the variables that are set, with their values
    siteFile,   \* the document in SITE_ROOT/site.json (NoFile: there is none)
    init,       \* what the call of Init did: [called, err, looked, siteRoot, showRoot]
    procs,      \* the calls running in concurrent processes: process -> call state
    gui         \* the front-end: the four boxes, their selections, the pins

branchVars == <<platform, siteInfo, fs, made, held, last>>

sceneVars == <<scene, ran>>

spawnVars == <<child, stderr, calls>>

initVars == <<env, siteFile, init>>

otherVars == <<procs, gui>>

vars == <<branchVars, sceneVars, spawnVars, initVars, otherVars>>

-----------------------------------------------------------------------------
(* Strings *)

\* UTF-16 code unit of a character: what < and the default sort compare.
Code(c) ==
    CASE c = " " -> 32
      [] c = "+" -> 43
      [] c = "-" -> 45
      [] c = "." -> 46
      [] c = "0" -> 48
      [] c = "1" -> 49
      [] c = "2" -> 50
      [] c = "3" -> 51
      [] c = "4" -> 52
      [] c = "5" -> 53
      [] c = "6" -> 54
      [] c = "7" -> 55
      [] c = "8" -> 56
      [] c = "9" -> 57
      [] c = "_" -> 95
      [] c = "a" -> 97
      [] c = "b" -> 98
      [] c = "c" -> 99
      [] c = "d" -> 100
      [] c = "e" -> 101
      [] c = "f" -> 102
      [] c = "g" -> 103
      [] c = "h" -> 104
      [] c = "i" -> 105
      [] c = "k" -> 107
      [] c = "m" -> 109
      [] c = "n" -> 110
      [] c = "o" -> 111
      [] c = "p" -> 112
      [] c = "r" -> 114
      [] c = "s" -> 115
      [] c = "t" -> 116
      [] c = "u" -> 117
      [] c = "v" -> 118
      [] c = "w" -> 119
      [] c = "x" -> 120

\* a < b on strings: lexicographic on code units, a proper prefix first.
RECURSIVE StrLess(_, _)
StrLess(a, b) ==
    IF b = <<>> THEN FALSE
    ELSE IF a = <<>> THEN TRUE
    ELSE IF Code(Head(a)) < Code(Head(b)) THEN TRUE
    ELSE IF Code(Head(a)) > Code(Head(b)) THEN FALSE
    ELSE StrLess(Tail(a), Tail(b))

\* compare (part_001:524): -1, 0 or 1.
compare(a, b) ==
    IF StrLess(a, b) THEN -1
    ELSE IF StrLess(b, a) THEN 1
    ELSE 0

\* Insert x into a sequence already ordered by compare.
RECURSIVE InsertSorted(_, _)
InsertSorted(x, s) ==
    IF s = <<>> THEN <<x>>
    ELSE IF compare(x, Head(s)) < 0 THEN <<x>> \o s
    ELSE <<Head(s)>> \o InsertSorted(x, Tail(s))

\* Array.prototype.sort() on an array of strings (no comparator: code unit order).
RECURSIVE SortStrings(_)
SortStrings(s) ==
    IF s = <<>> THEN <<>>
    ELSE InsertSorted(Head(s), SortStrings(Tail(s)))

Range(s) == {s[i] : i \in 1..Len(s)}

\* Every order in which a directory listing may return the set S.
RECURSIVE Orders(_)
Orders(S) ==
    IF S = {} THEN {<<>>}
    ELSE UNION {{<<x>> \o t : t \in Orders(S \ {x})} : x \in S}

IsSorted(s) ==
    \A i \in 1..Len(s) : \A j \in 1..Len(s) : i < j => compare(s[i], s[j]) < 0

\* The names used by the schema and the callers.
sEmpty == <<>>
sDot == <<".">>
sDotDot == <<".", ".">>
sA == <<"a">>
sB == <<"b">>
sX == <<"x">>
sShot == <<"s", "h", "o", "t">>
sComp == <<"c", "o", "m", "p">>
sWork == <<"w", "o", "r", "k">>
sPart == <<"p", "a", "r", "t">>
sScenes == <<"s", "c", "n">>
sNuke == <<"n", "u", "k", "e">>
sExt == <<".", "n", "k">>
p0755 == <<"0", "7", "5", "5">>
p2775 == <<"2", "7", "7", "5">>
p0777 == <<"0", "7", "7", "7">>

-----------------------------------------------------------------------------
(* String operations of the discovery *)

sUnderscore == <<"_">>
sV == <<"v">>
sUndefined == <<"u", "n", "d", "e", "f", "i", "n", "e", "d">>
sConstructor == <<"c", "o", "n", "s", "t", "r", "u", "c", "t", "o", "r">>

\* String.prototype.endsWith and startsWith.
endsWith(str, suffix) ==
    /\ Len(suffix) <= Len(str)
    /\ SubSeq(str, Len(str) - Len(suffix) + 1, Len(str)) = suffix

startsWith(str, prefix) ==
    /\ Len(prefix) <= Len(str)
    /\ SubSeq(str, 1, Len(prefix)) = prefix

\* str.substring(from) with a 0-based index, to the end.
substring(str, from) == SubSeq(str, from + 1, Len(str))

\* str.split("_"): the tokens between underscores; "" splits to [""].
RECURSIVE split(_)
split(str) ==
    IF \A i \in 1..Len(str) : str[i] # "_" THEN <<str>>
    ELSE LET k == CHOOSE i \in 1..Len(str) :
                      str[i] = "_" /\ \A j \in 1..(i - 1) : str[j] # "_"
         IN  <<SubSeq(str, 1, k - 1)>> \o split(SubSeq(str, k + 1, Len(str)))

\* ws.join("_").
RECURSIVE join(_)
join(ws) ==
    IF ws = <<>> THEN <<>>
    ELSE IF Len(ws) = 1 THEN ws[1]
    ELSE ws[1] \o sUnderscore \o join(Tail(ws))

Digits == <<"0", "1", "2", "3", "4", "5", "6", "7", "8", "9">>

IsDigit(c) == c \in Range(Digits)

DigitValue(c) == (CHOOSE i \in 1..Len(Digits) : Digits[i] = c) - 1

\* The value of the longest prefix of digits of str, after the digits acc.
RECURSIVE DigitsPrefix(_, _)
DigitsPrefix(str, acc) ==
    IF str = <<>> \/ ~IsDigit(Head(str)) THEN acc
    ELSE DigitsPrefix(Tail(str), acc * 10 + DigitValue(Head(str)))

\* parseInt(str, 10): leading blanks are skipped, a sign is read, then the
\* longest run of digits; NaN when there is no digit.
RECURSIVE parseInt(_)
parseInt(str) ==
    IF str # <<>> /\ Head(str) = " " THEN parseInt(Tail(str))
    ELSE LET signed == str # <<>> /\ Head(str) \in {"+", "-"}
             body == IF signed THEN Tail(str) ELSE str
         IN  IF body = <<>> \/ ~IsDigit(Head(body)) THEN [nan |-> TRUE, val |-> 0]
             ELSE [nan |-> FALSE,
                   val |-> IF signed /\ Head(str) = "-"
                           THEN 0 - DigitsPrefix(body, 0)
                           ELSE DigitsPrefix(body, 0)]

\* The truth value of a number: NaN and 0 are falsy.
Truthy(n) == ~n.nan /\ n.val # 0

\* The property names a plain object {} inherits from Object.prototype:
\* taskMap[k] is a truthy value for each of them on an empty taskMap.
ObjectPrototypeKeys ==
    {<<"c", "o", "n", "s", "t", "r", "u", "c", "t", "o", "r">>,
     <<"t", "o", "S", "t", "r", "i", "n", "g">>,
     <<"v", "a", "l", "u", "e", "O", "f">>,
     <<"h", "a", "s", "O", "w", "n", "P", "r", "o", "p", "e", "r", "t", "y">>,
     <<"i", "s", "P", "r", "o", "t", "o", "t", "y", "p", "e", "O", "f">>,
     <<"p", "r", "o", "p", "e", "r", "t", "y", "I", "s", "E", "n", "u", "m", "e", "r", "a", "b", "l", "e">>,
     <<"t", "o", "L", "o", "c", "a", "l", "e", "S", "t", "r", "i", "n", "g">>,
     <<"_", "_", "p", "r", "o", "t", "o", "_", "_">>,
     <<"_", "_", "d", "e", "f", "i", "n", "e", "G", "e", "t", "t", "e", "r", "_", "_">>,
     <<"_", "_", "d", "e", "f", "i", "n", "e", "S", "e", "t", "t", "e", "r", "_", "_">>,
     <<"_", "_", "l", "o", "o", "k", "u", "p", "G", "e", "t", "t", "e", "r", "_", "_">>,
     <<"_", "_", "l", "o", "o", "k", "u", "p", "S", "e", "t", "t", "e", "r", "_", "_">>}

-----------------------------------------------------------------------------
(* Paths and the filesystem *)

\* path.join(base, name) for a name without a separator: "" and "." stay,
\* ".." goes up, anything else is appended.
Join(base, name) ==
    IF name = sEmpty \/ name = sDot THEN base
    ELSE IF name = sDotDot
         THEN (IF base = <<>> THEN base ELSE SubSeq(base, 1, Len(base) - 1))
    ELSE Append(base, name)

\* SHOW_ROOT after path.normalize (part_001:26).
showRoot == <<<<"r">>>>

Dirname(p) == SubSeq(p, 1, Len(p) - 1)

\* A new entry, with the mode the umask leaves and no access list.
Entry(kind) == [kind |-> kind, perm |-> p0755, acl |-> "none"]

existsSync(f, p) == p \in DOMAIN f

IsDirectory(f, p) == p \in DOMAIN f /\ f[p].kind = "dir"

IsFile(f, p) == p \in DOMAIN f /\ f[p].kind = "file"

\* fs.readdirSync(d): the names of the entries of d (an unordered set here; the
\* callers take them in some order).
readdirSync(f, d) ==
    {p[Len(p)] : p \in {q \in DOMAIN f : Len(q) = Len(d) + 1 /\ Dirname(q) = d}}

\* fs.mkdirSync(p), not recursive: [err, fs].
mkdirSync(f, p) ==
    IF existsSync(f, p) THEN [err |-> "EEXIST", fs |-> f]
    ELSE IF ~existsSync(f, Dirname(p)) THEN [err |-> "ENOENT", fs |-> f]
    ELSE IF ~IsDirectory(f, Dirname(p)) THEN [err |-> "ENOTDIR", fs |-> f]
    ELSE [err |-> "", fs |-> (p :> Entry("dir")) @@ f]

\* fs.chmodSync(p, perm).
chmodSync(f, p, perm) ==
    [f EXCEPT ![p].perm = perm]

\* The icacls grant of makeDir on win32 (part_001:480-493).
Icacls(f, p, perm) ==
    LET specialBit == SubSeq(perm, 1, IF Len(perm) < 1 THEN Len(perm) ELSE 1)
        defaultBits == SubSeq(perm, 2, IF Len(perm) < 4 THEN Len(perm) ELSE 4)
    IN  IF defaultBits = <<"7", "7", "7">> \/ defaultBits = <<"7", "7", "5">>
        THEN [f EXCEPT ![p].acl =
                 IF specialBit = <<"2">> THEN "everyone:(CI)(OI)(F)"
                                         ELSE "everyone:(F)"]
        ELSE f

\* makeDir (part_001:477): mkdir, chmod, and on win32 the icacls grant.
makeDir(f, plat, d, perm) ==
    LET m == mkdirSync(f, d)
    IN  IF m.err # "" THEN m
        ELSE LET c == chmodSync(m.fs, d, perm)
             IN  [err |-> "",
                  fs |-> IF plat = "win32" THEN Icacls(c, d, perm) ELSE c]

\* The loop of every Create: makeDir for each declared subdirectory in turn,
\* stopping at the first error with the directories made so far left behind.
\* A spec without Name makes path.join throw; one without Perm makes chmodSync
\* throw after the directory was made.
RECURSIVE makeSubdirs(_, _, _, _)
makeSubdirs(f, plat, dir, subdirs) ==
    IF subdirs = <<>> THEN [err |-> "", fs |-> f]
    ELSE IF "Name" \notin DOMAIN Head(subdirs)
    THEN [err |-> "TypeError", fs |-> f]
    ELSE IF "Perm" \notin DOMAIN Head(subdirs)
    THEN LET n == mkdirSync(f, Join(dir, Head(subdirs).Name))
         IN  [err |-> IF n.err # "" THEN n.err ELSE "TypeError", fs |-> n.fs]
    ELSE LET m == makeDir(f, plat, Join(dir, Head(subdirs).Name), Head(subdirs).Perm)
         IN  IF m.err # "" THEN m
             ELSE makeSubdirs(m.fs, plat, dir, Tail(subdirs))

\* listDirs (part_001:498) on a listing returned in the given order.
listDirs(f, d, order) ==
    IF ~existsSync(f, d) THEN [err |-> "listDirs: no directory", dirs |-> <<>>]
    ELSE [err |-> "",
          dirs |-> SortStrings(
                       SelectSeq(order, LAMBDA ent : IsDirectory(f, Join(d, ent))))]

-----------------------------------------------------------------------------
(* The schema (site.json) *)

MaxEntries == 2

Dir(name, perm) == [Name |-> name, Perm |-> perm]

BranchInfo(label, subdirs, childRoot) ==
    [Label |-> label, Subdirs |-> subdirs, ChildRoot |-> childRoot]

Program ==
    [Name |-> "nuke", Ext |-> sExt,
     CreateCmd |-> [linux |-> "runner/nuke_create.sh"],
     OpenCmd |-> [linux |-> "runner/nuke_open.sh"]]

\* The schemas Init may load. All pass validateSiteInfo. "own": every level
\* declares its own directory (Name "") first; "none": no level declares a
\* subdirectory; "sub": every level declares subdirectories but not "".
Shapes == {"own", "none", "sub"}

SiteInfoOf(shape) ==
    LET own == IF shape = "own" THEN <<Dir(sEmpty, p2775)>> ELSE <<>>
        sub(n, p) == IF shape = "none" THEN <<>> ELSE <<Dir(n, p)>>
    IN  [show |-> BranchInfo("show", own \o sub(sShot, p0755), sEmpty),
         category |-> BranchInfo("category", <<>>, sEmpty),
         categories |->
             (sShot :>
                 [group |-> BranchInfo("sequence", own \o sub(sWork, p2775), sEmpty),
                  unit |-> BranchInfo("shot", own \o sub(sPart, p0777), sPart),
                  part |->
                      (sComp :>
                          [Label |-> "comp",
                           Subdirs |-> own \o sub(sScenes, p2775),
                           ProgramDir |-> (sNuke :> sScenes)])]),
         programs |-> (sNuke :> Program)]

\* ValidCategories (part_001:39): the declared category names, sorted.
ValidCategories(info) ==
    LET ctgs == CHOOSE s \in Orders(DOMAIN info.categories) : TRUE
    IN  SortStrings(ctgs)

-----------------------------------------------------------------------------
(* Branches *)

NoBranch == [Type |-> "none"]

\* getParent (part_001:533): the nearest proper ancestor of the given type;
\* NoBranch stands for the error thrown when there is none.
RECURSIVE getParent(_, _)
getParent(b, type) ==
    IF b.Parent = NoBranch THEN NoBranch
    ELSE IF b.Parent.Type = type THEN b.Parent
    ELSE getParent(b.Parent, type)

\* new ShowBranch(name) (part_001:135).
ShowBranch(info, name) ==
    LET dir == Join(showRoot, name)
    IN  [err |-> "",
         b |-> [Parent |-> NoBranch, Type |-> "show", Name |-> name, Dir |-> dir,
                Subdirs |-> info.show.Subdirs,
                ChildRoot |-> Join(dir, info.show.ChildRoot)]]

\* new CategoryBranch(parent, name) (part_001:164).
CategoryBranch(info, parent, name) ==
    IF name \notin Range(ValidCategories(info))
    THEN [err |-> "invalid category name", b |-> NoBranch]
    ELSE LET dir == Join(parent.ChildRoot, name)
         IN  [err |-> "",
              b |-> [Parent |-> parent, Type |-> "category", Name |-> name,
                     Dir |-> dir, Subdirs |-> info.category.Subdirs,
                     ChildRoot |-> Join(dir, info.category.ChildRoot)]]

\* The category name a new branch under parent resolves: getParent(this,
\* "category").Name, where this.Parent is parent.
CtgOf(parent) ==
    IF parent.Type = "category" THEN parent.Name
    ELSE getParent(parent, "category").Name

\* new GroupBranch(parent, name) (part_001:206).
GroupBranch(info, parent, name) ==
    LET dir == Join(parent.ChildRoot, name)
        ctg == CtgOf(parent)
    IN  IF ctg \notin DOMAIN info.categories
        THEN [err |-> "unknown category", b |-> NoBranch]
        ELSE LET grpInfo == info.categories[ctg].group
             IN  [err |-> "",
                  b |-> [Parent |-> parent, Type |-> "group", Name |-> name,
                         Dir |-> dir, Subdirs |-> grpInfo.Subdirs,
                         ChildRoot |-> Join(dir, grpInfo.ChildRoot)]]

\* new UnitBranch(parent, name) (part_001:250).
UnitBranch(info, parent, name) ==
    LET dir == Join(parent.ChildRoot, name)
        ctg == CtgOf(parent)
    IN  IF ctg \notin DOMAIN info.categories
        THEN [err |-> "unknown category", b |-> NoBranch]
        ELSE LET unitInfo == info.categories[ctg].unit
             IN  [err |-> "",
                  b |-> [Parent |-> parent, Type |-> "unit", Name |-> name,
                         Dir |-> dir, Subdirs |-> unitInfo.Subdirs,
                         ChildRoot |-> Join(dir, unitInfo.ChildRoot)]]

\* new PartBranch(parent, name) (part_001:298).
PartBranch(info, parent, name) ==
    LET dir == Join(parent.ChildRoot, name)
        ctg == CtgOf(parent)
    IN  IF ctg \notin DOMAIN info.categories
        THEN [err |-> "unknown category", b |-> NoBranch]
        ELSE IF name \notin DOMAIN info.categories[ctg].part
        THEN [err |-> "unknown part", b |-> NoBranch]
        ELSE LET partInfo == info.categories[ctg].part[name]
             IN  [err |-> "",
                  b |-> [Parent |-> parent, Type |-> "part", Name |-> name,
                         Dir |-> dir, Subdirs |-> partInfo.Subdirs,
                         ChildRoot |-> dir,
                         ProgramDir |-> partInfo.ProgramDir]]

-----------------------------------------------------------------------------
(* The branch operations, as pure functions of the schema and the filesystem *)

Call(op, type, name, err, branch, list) ==
    [op |-> op, type |-> type, name |-> name, err |-> err, branch |-> branch,
     list |-> list]

NoCall == Call("none", "none", sEmpty, "", NoBranch, <<>>)

\* No scene path was computed; no external command was started.
NoScene == [computed |-> FALSE]
NoExec == [kind |-> "none"]

\* No process was spawned.
NoChild == [spawned |-> FALSE]

\* No concurrent calls are running; the front-end is not started.
NoProcs == <<>>
NoGui == [started |-> FALSE]

\* The environment of a site that is set up, and what Init leaves when it
\* succeeds there (part_001:17-35).
sSiteRoot == <<"s">>
sShowRoot == <<"r">>
SiteEnv == [SITE_ROOT |-> sSiteRoot, SHOW_ROOT |-> sShowRoot]
Initialized ==
    [called |-> TRUE, err |-> "", looked |-> TRUE, siteRoot |-> <<sSiteRoot>>,
     showRoot |-> <<sShowRoot>>]

\* Create at any level (part_001:101, 176, 220, 264): construct the branch,
\* then makeDir each of its Subdirs. [err, b, fs].
CreateBranch(f, plat, c) ==
    IF c.err # "" THEN [err |-> c.err, b |-> NoBranch, fs |-> f]
    ELSE LET m == makeSubdirs(f, plat, c.b.Dir, c.b.Subdirs)
         IN  [err |-> m.err, b |-> c.b, fs |-> m.fs]

\* Show, Group, Unit (part_001:110, 182, 226): construct the branch and throw
\* when its directory does not exist. [err, b].
GetChecked(f, c, msg) ==
    IF c.err # "" THEN [err |-> c.err, b |-> NoBranch]
    ELSE IF ~existsSync(f, c.b.Dir) THEN [err |-> msg, b |-> NoBranch]
    ELSE [err |-> "", b |-> c.b]

\* ShowBranch.Category and UnitBranch.Part (part_001:144, 270): construct only.
GetUnchecked(c) ==
    IF c.err # "" THEN [err |-> c.err, b |-> NoBranch]
    ELSE [err |-> "", b |-> c.b]

ShowGet(info, f, name) == GetChecked(f, ShowBranch(info, name), "show not exists")

CategoryGet(info, parent, name) == GetUnchecked(CategoryBranch(info, parent, name))

GroupGet(info, f, parent, name) ==
    GetChecked(f, GroupBranch(info, parent, name), "no group")

UnitGet(info, f, parent, name) ==
    GetChecked(f, UnitBranch(info, parent, name), "no unit")

PartGet(info, parent, name) == GetUnchecked(PartBranch(info, parent, name))

\* The loop of Shows, Categories, Groups, Units: Get every name in turn; the
\* first error is thrown. rs is the sequence of the Get results.
Children(rs) ==
    LET bad == {i \in 1..Len(rs) : rs[i].err # ""}
    IN  IF bad # {}
        THEN [err |-> rs[CHOOSE i \in bad : \A j \in bad : i <= j].err, list |-> <<>>]
        ELSE [err |-> "", list |-> [i \in 1..Len(rs) |-> rs[i].b.Name]]

\* The mutant of ChildrenSkipping that throws the first error, as the loops of
\* the other levels do.
ChildrenThrowing(rs) == Children(rs)

\* The loop of Parts (part_001:273): a name whose Part throws is skipped.
ChildrenSkipping(rs) ==
    LET ok == SelectSeq(rs, LAMBDA r : r.err = "")
    IN  [err |-> "", list |-> [i \in 1..Len(ok) |-> ok[i].b.Name]]

-----------------------------------------------------------------------------
(* The branch model as a state machine *)

\* Names a caller passes.
ShowNames == {sA, sB}
GroupNames == {sA}
UnitNames == {sA}
CategoryNames == {sShot, sX}
PartNames == {sComp, sX}

\* Names of directories made behind the program's back.
ExternalNames == {sB, sX}

Platforms == {"linux", "win32"}

\* A site with no show yet.
EmptySite == (<<>> :> Entry("dir")) @@ (showRoot :> Entry("dir"))

\* A site that already holds show a, its category shot, group a, unit a and
\* the unit's part root.
SiteWithUnit ==
    LET show == Join(showRoot, sA)
        ctg == Join(show, sShot)
        grp == Join(ctg, sA)
        unit == Join(grp, sA)
    IN  (show :> Entry("dir")) @@ (ctg :> Entry("dir")) @@ (grp :> Entry("dir"))
        @@ (unit :> Entry("dir")) @@ (Join(unit, sPart) :> Entry("dir")) @@ EmptySite

InitBranch ==
    /\ platform \in Platforms
    /\ siteInfo \in {SiteInfoOf(s) : s \in Shapes}
    /\ fs \in {EmptySite, SiteWithUnit}
    /\ made = 0
    /\ held = NoBranch
    /\ last = NoCall
    /\ scene = NoScene
    /\ ran = NoExec
    /\ child = NoChild
    /\ stderr = ""
    /\ calls = <<>>
    /\ env = SiteEnv
    /\ siteFile = siteInfo
    /\ init = Initialized
    /\ procs = NoProcs
    /\ gui = NoGui

\* The entries r.fs adds to fs fit the bound.
Fits(f) == made + Cardinality(DOMAIN f \ DOMAIN fs) <= MaxEntries

\* A Create call's step.
DoCreate(type, name, c) ==
    LET r == CreateBranch(fs, platform, c)
    IN  /\ Fits(r.fs)
        /\ fs' = r.fs
        /\ made' = made + Cardinality(DOMAIN r.fs \ DOMAIN fs)
        /\ last' = Call("Create", type, name, r.err, r.b, <<>>)
        /\ UNCHANGED <<platform, siteInfo, held, sceneVars, spawnVars, initVars, otherVars>>

\* A Get call's step: the caller keeps the branch it is returned.
DoGet(type, name, r) ==
    /\ held' = IF r.err = "" THEN r.b ELSE held
    /\ last' = Call("Get", type, name, r.err, r.b, <<>>)
    /\ UNCHANGED <<platform, siteInfo, fs, made, sceneVars, spawnVars, initVars, otherVars>>

\* A List call's step.
DoList(type, r) ==
    /\ last' = Call("List", type, sEmpty, r.err, NoBranch, r.list)
    /\ UNCHANGED <<platform, siteInfo, fs, made, held, sceneVars, spawnVars, initVars, otherVars>>

CreateShow(name) == DoCreate("show", name, ShowBranch(siteInfo, name))

Show(name) == DoGet("show", name, ShowGet(siteInfo, fs, name))

Shows ==
    \E order \in Orders(readdirSync(fs, showRoot)) :
        LET l == listDirs(fs, showRoot, order)
        IN  DoList("show",
                IF l.err # "" THEN [err |-> l.err, list |-> <<>>]
                ELSE Children([i \in 1..Len(l.dirs) |->
                                   ShowGet(siteInfo, fs, l.dirs[i])]))

Category(name) ==
    /\ held.Type = "show"
    /\ DoGet("category", name, CategoryGet(siteInfo, held, name))

Categories ==
    /\ held.Type = "show"
    /\ LET cs == ValidCategories(siteInfo)
       IN  DoList("category",
               Children([i \in 1..Len(cs) |-> CategoryGet(siteInfo, held, cs[i])]))

CreateGroup(name) ==
    /\ held.Type = "category"
    /\ DoCreate("group", name, GroupBranch(siteInfo, held, name))

Group(name) ==
    /\ held.Type = "category"
    /\ DoGet("group", name, GroupGet(siteInfo, fs, held, name))

Groups ==
    /\ held.Type = "category"
    /\ \E order \in Orders(readdirSync(fs, held.ChildRoot)) :
           LET l == listDirs(fs, held.ChildRoot, order)
           IN  DoList("group",
                   IF l.err # "" THEN [err |-> l.err, list |-> <<>>]
                   ELSE Children([i \in 1..Len(l.dirs) |->
                                      GroupGet(siteInfo, fs, held, l.dirs[i])]))

CreateUnit(name) ==
    /\ held.Type = "group"
    /\ DoCreate("unit", name, UnitBranch(siteInfo, held, name))

Unit(name) ==
    /\ held.Type = "group"
    /\ DoGet("unit", name, UnitGet(siteInfo, fs, held, name))

Units ==
    /\ held.Type = "group"
    /\ \E order \in Orders(readdirSync(fs, held.ChildRoot)) :
           LET l == listDirs(fs, held.ChildRoot, order)
           IN  DoList("unit",
                   IF l.err # "" THEN [err |-> l.err, list |-> <<>>]
                   ELSE Children([i \in 1..Len(l.dirs) |->
                                      UnitGet(siteInfo, fs, held, l.dirs[i])]))

CreatePart(name) ==
    /\ held.Type = "unit"
    /\ DoCreate("part", name, PartBranch(siteInfo, held, name))

Part(name) ==
    /\ held.Type = "unit"
    /\ DoGet("part", name, PartGet(siteInfo, held, name))

Parts ==
    /\ held.Type = "unit"
    /\ \E order \in Orders(readdirSync(fs, held.ChildRoot)) :
           LET l == listDirs(fs, held.ChildRoot, order)
           IN  DoList("part",
                   IF l.err # "" THEN [err |-> l.err, list |-> <<>>]
                   ELSE ChildrenSkipping([i \in 1..Len(l.dirs) |->
                                              PartGet(siteInfo, held, l.dirs[i])]))

\* Where entries appear behind the program's back: among the children the
\* caller's branch lists (the shows, at top level).
ExternalPlace == IF held = NoBranch THEN showRoot ELSE held.ChildRoot

\* An artist makes a directory out of band.
ExternalMkdir ==
    \E n \in ExternalNames :
        LET m == mkdirSync(fs, Join(ExternalPlace, n))
        IN  /\ m.err = ""
            /\ Fits(m.fs)
            /\ fs' = m.fs
            /\ made' = made + 1
            /\ last' = NoCall
            /\ UNCHANGED <<platform, siteInfo, held, sceneVars, spawnVars, initVars, otherVars>>

\* Something writes a regular file out of band.
ExternalWriteFile ==
    LET p == Join(ExternalPlace, sX)
    IN  /\ IsDirectory(fs, ExternalPlace)
        /\ ~existsSync(fs, p)
        /\ made < MaxEntries
        /\ fs' = (p :> Entry("file")) @@ fs
        /\ made' = made + 1
        /\ last' = NoCall
        /\ UNCHANGED <<platform, siteInfo, held, sceneVars, spawnVars, initVars, otherVars>>

NextBranch ==
    \/ \E n \in ShowNames : CreateShow(n)
    \/ \E n \in ShowNames : Show(n)
    \/ Shows
    \/ \E n \in CategoryNames : Category(n)
    \/ Categories
    \/ \E n \in GroupNames : CreateGroup(n)
    \/ \E n \in GroupNames : Group(n)
    \/ Groups
    \/ \E n \in UnitNames : CreateUnit(n)
    \/ \E n \in UnitNames : Unit(n)
    \/ Units
    \/ \E n \in PartNames : CreatePart(n)
    \/ \E n \in PartNames : Part(n)
    \/ Parts
    \/ ExternalMkdir
    \/ ExternalWriteFile

SpecBranch == InitBranch /\ [][NextBranch]_vars

-----------------------------------------------------------------------------
(* Claims about the branch model *)

\* A step from a Create that returned without error to a Get of the same
\* level and name returns the branch, with the path Create used.
CreateThenGetStep ==
    (/\ last.op = "Create" /\ last.err = ""
     /\ last.type \in {"show", "group", "unit"}
     /\ last'.op = "Get" /\ last'.type = last.type /\ last'.name = last.name)
    => (last'.err = "" /\ last'.branch.Dir = last.branch.Dir)

\* C1: at the levels that offer both operations (show, group, unit), a
\* Create(name) that returns without error is followed by a Get(name) that
\* succeeds and returns a branch with the path Create used.
C1_CreateThenGet == [][CreateThenGetStep]_vars

\* A Create step fails with EEXIST when the branch's directory exists, and
\* when it repeats the Create before it.
CreateExistingStep ==
    /\ (/\ last'.op = "Create" /\ last'.branch # NoBranch
        /\ existsSync(fs, last'.branch.Dir))
       => last'.err = "EEXIST"
    /\ (/\ last.op = "Create" /\ last.err = ""
        /\ last'.op = "Create" /\ last'.type = last.type
        /\ last'.name = last.name)
       => last'.err = "EEXIST"

\* C2: Create(name) at any level fails with the already-exists error whenever
\* the branch's directory exists when it is called, and the second of two
\* consecutive Create(name) calls with the same name fails with it, whatever
\* the level's subdirectory list.
C2_CreateExistingFails == [][CreateExistingStep]_vars

\* C3: after a Create that returned without error the branch's own directory
\* exists, and so does every subdirectory the schema declares for the level,
\* with its declared permission.
C3_CreateMakesAll ==
    (last.op = "Create" /\ last.err = "")
    => /\ IsDirectory(fs, last.branch.Dir)
       /\ \A i \in 1..Len(last.branch.Subdirs) :
              LET d == last.branch.Subdirs[i]
                  p == Join(last.branch.Dir, d.Name)
              IN  IsDirectory(fs, p) /\ fs[p].perm = d.Perm

\* C4: a Get at any level (show, category, group, unit, part) returns a
\* branch only when the branch's directory exists.
C4_GetOnlyExisting ==
    (last.op = "Get" /\ last.err = "") => existsSync(fs, last.branch.Dir)

\* The childRootPath a List call of the given level enumerates.
ListedRoot == IF last.type = "show" THEN showRoot ELSE held.ChildRoot

\* C5: a List at any level returns exactly the names of the directories
\* directly under the level's childRootPath, in ascending name order.
C5_ListExactSorted ==
    (last.op = "List" /\ last.err = "")
    => /\ Range(last.list) =
              {n \in readdirSync(fs, ListedRoot) : IsDirectory(fs, Join(ListedRoot, n))}
       /\ IsSorted(last.list)

-----------------------------------------------------------------------------
(* Scene naming and discovery *)

\* new TaskBranch(parent, name, pg, dir) (part_001:427).
TaskBranch(parent, name, pg, dir) ==
    [Parent |-> parent, Type |-> "task", Name |-> name, Program |-> pg,
     Dir |-> dir, Versions |-> <<>>]

\* PartBranch.ProgramAt (part_001:324).
ProgramAt(part, prog) ==
    IF prog \notin DOMAIN part.ProgramDir
    THEN [err |-> "program not defined in part", dir |-> sEmpty]
    ELSE [err |-> "", dir |-> part.ProgramDir[prog]]

\* The prefix Tasks expects of a scene file name: show_grp_unit_part_
\* (part_001:370-373, 384).
TasksPrefix(part) ==
    getParent(part, "show").Name \o sUnderscore
    \o getParent(part, "group").Name \o sUnderscore
    \o getParent(part, "unit").Name \o sUnderscore
    \o part.Name \o sUnderscore

\* taskMap[task].Versions.push(version), after taskMap[task] was set when
\* it was falsy (part_001:398-401). map is taskMap's own entries in the order
\* they were added. A task name that is a property every object inherits is
\* truthy without being a TaskBranch, and the push throws a TypeError.
PushVersion(acc, part, pg, dir, task, version) ==
    IF \E i \in 1..Len(acc.map) : acc.map[i].Name = task
    THEN [err |-> "",
          map |-> [i \in 1..Len(acc.map) |->
                      IF acc.map[i].Name = task
                      THEN [acc.map[i] EXCEPT !.Versions = Append(@, version)]
                      ELSE acc.map[i]]]
    ELSE IF task \in ObjectPrototypeKeys
    THEN [err |-> "TypeError", map |-> acc.map]
    ELSE [err |-> "",
          map |-> Append(acc.map,
                         [TaskBranch(part, task, pg, dir) EXCEPT !.Versions = <<version>>])]

\* The version test of Tasks (part_001:395).
AcceptsVersion(version) ==
    startsWith(version, sV) /\ Truthy(parseInt(substring(version, 1)))

\* The mutant of ScanFile that takes the first token as the task name.
ScanFileFirstToken(f, part, pg, dir, acc, name) ==
    IF acc.err # "" THEN acc
    ELSE IF ~IsFile(f, Join(dir, name)) THEN acc
    ELSE IF ~endsWith(name, pg.Ext) THEN acc
    ELSE LET f1 == SubSeq(name, 1, Len(name) - Len(pg.Ext))
             prefix == TasksPrefix(part)
         IN  IF ~startsWith(f1, prefix) THEN acc
             ELSE LET ws == split(substring(f1, Len(prefix)))
                  IN  IF Len(ws) = 1 THEN acc
                      ELSE LET version == ws[Len(ws)]
                               task == ws[1]
                           IN  IF ~AcceptsVersion(version) THEN acc
                               ELSE PushVersion(acc, part, pg, dir, task, version)

\* The body of the loop of Tasks for one entry of the listing (part_001:376-402).
ScanFile(f, part, pg, dir, acc, name) ==
    IF acc.err # "" THEN acc
    ELSE IF ~IsFile(f, Join(dir, name)) THEN acc
    ELSE IF ~endsWith(name, pg.Ext) THEN acc
    ELSE LET f1 == SubSeq(name, 1, Len(name) - Len(pg.Ext))
             prefix == TasksPrefix(part)
         IN  IF ~startsWith(f1, prefix) THEN acc
             ELSE LET ws == split(substring(f1, Len(prefix)))
                  IN  IF Len(ws) = 1 THEN acc
                      ELSE LET version == ws[Len(ws)]
                               task == join(SubSeq(ws, 1, Len(ws) - 1))
                           IN  IF ~AcceptsVersion(version) THEN acc
                               ELSE PushVersion(acc, part, pg, dir, task, version)

RECURSIVE ScanFiles(_, _, _, _, _, _)
ScanFiles(f, part, pg, dir, acc, order) ==
    IF order = <<>> THEN acc
    ELSE ScanFiles(f, part, pg, dir, ScanFile(f, part, pg, dir, acc, Head(order)),
                   Tail(order))

\* Insert task t into a sequence of tasks ordered by compare on Name.
RECURSIVE InsertTask(_, _)
InsertTask(t, ts) ==
    IF ts = <<>> THEN <<t>>
    ELSE IF compare(t.Name, Head(ts).Name) < 0 THEN <<t>> \o ts
    ELSE <<Head(ts)>> \o InsertTask(t, Tail(ts))

\* tasks.sort(function(a, b) { return compare(a.Name, b.Name) }) (part_001:409).
RECURSIVE SortTasks(_)
SortTasks(ts) ==
    IF ts = <<>> THEN <<>>
    ELSE InsertTask(Head(ts), SortTasks(Tail(ts)))

\* The mutant of SortVersions that leaves the versions in the order found.
SortVersionsNot(vs) == vs

\* t.Versions.sort() (part_001:406).
SortVersions(vs) == SortStrings(vs)

\* PartBranch.Tasks (part_001:361) on a listing returned in the given order:
\* [err, tasks].
TasksOf(info, f, part, prog, order) ==
    LET pa == ProgramAt(part, prog)
        dir == Join(part.Dir, pa.dir)
    IN  IF pa.err # "" THEN [err |-> pa.err, tasks |-> <<>>]
        ELSE IF ~existsSync(f, dir) THEN [err |-> "", tasks |-> <<>>]
        ELSE IF prog \notin DOMAIN info.programs
        THEN [err |-> "program not defined", tasks |-> <<>>]
        ELSE IF ~IsDirectory(f, dir) THEN [err |-> "ENOTDIR", tasks |-> <<>>]
        ELSE LET pg == info.programs[prog]
                 acc == ScanFiles(f, part, pg, dir, [err |-> "", map |-> <<>>], order)
             IN  IF acc.err # "" THEN [err |-> acc.err, tasks |-> <<>>]
                 ELSE [err |-> "",
                       tasks |-> SortTasks(
                           [i \in 1..Len(acc.map) |->
                               [acc.map[i] EXCEPT !.Versions = SortVersions(@)]])]

\* The listing Tasks reads: the entries of the program's directory, in any order.
Listings(f, part, prog) ==
    LET pa == ProgramAt(part, prog)
    IN  IF pa.err # "" THEN {<<>>}
        ELSE Orders(readdirSync(f, Join(part.Dir, pa.dir)))

\* The mutant of DefaultVersion that takes the first discovered version.
FirstVersion(t) ==
    IF t.Versions = <<>> THEN sUndefined ELSE t.Versions[1]

\* this.Versions[this.Versions.length-1] (part_001:458): undefined, which the
\* concatenation writes as "undefined", when there is no version.
DefaultVersion(t) ==
    IF t.Versions = <<>> THEN sUndefined ELSE t.Versions[Len(t.Versions)]

\* TaskBranch.Scene (part_001:456). An omitted version is the empty string:
\* !ver holds for undefined and for "".
Scene(t, ver) ==
    LET v == IF ver = sEmpty THEN DefaultVersion(t) ELSE ver
        name == getParent(t, "show").Name \o sUnderscore
                \o getParent(t, "group").Name \o sUnderscore
                \o getParent(t, "unit").Name \o sUnderscore
                \o getParent(t, "part").Name \o sUnderscore
                \o t.Name \o sUnderscore \o v \o t.Program.Ext
    IN  Join(t.Dir, name)

-----------------------------------------------------------------------------
(* Scene lifecycle *)

SceneAt(path, ver) == [computed |-> TRUE, path |-> path, ver |-> ver]

\* The mutant of TaskCreate that runs the command without looking for the file.
TaskCreateUnchecked(f, plat, t, ver) ==
    LET sc == Scene(t, ver)
    IN  IF plat \notin DOMAIN t.Program.CreateCmd
        THEN [err |-> "not supported os", scene |-> SceneAt(sc, ver), ran |-> NoExec]
        ELSE [err |-> "", scene |-> SceneAt(sc, ver),
              ran |-> [kind |-> "execFileSync", cmd |-> t.Program.CreateCmd[plat],
                       args |-> <<sc>>]]

\* The mutant of TaskCreate that runs the linux command on every platform.
TaskCreateAnyOs(f, plat, t, ver) ==
    LET sc == Scene(t, ver)
    IN  IF existsSync(f, sc)
        THEN [err |-> "scene already exists", scene |-> SceneAt(sc, ver), ran |-> NoExec]
        ELSE [err |-> "", scene |-> SceneAt(sc, ver),
              ran |-> [kind |-> "execFileSync", cmd |-> t.Program.CreateCmd["linux"],
                       args |-> <<sc>>]]

\* TaskBranch.Create (part_001:435) up to the start of the command:
\* [err, scene, ran].
TaskCreate(f, plat, t, ver) ==
    LET sc == Scene(t, ver)
    IN  IF existsSync(f, sc)
        THEN [err |-> "scene already exists", scene |-> SceneAt(sc, ver), ran |-> NoExec]
        ELSE IF plat \notin DOMAIN t.Program.CreateCmd
        THEN [err |-> "not supported os", scene |-> SceneAt(sc, ver), ran |-> NoExec]
        ELSE [err |-> "", scene |-> SceneAt(sc, ver),
              ran |-> [kind |-> "execFileSync", cmd |-> t.Program.CreateCmd[plat],
                       args |-> <<sc>>]]

\* TaskBranch.Open (part_001:447): [err, scene, ran].
TaskOpen(plat, t, ver) ==
    LET sc == Scene(t, ver)
    IN  IF plat \notin DOMAIN t.Program.OpenCmd
        THEN [err |-> "not supported os", scene |-> SceneAt(sc, ver), ran |-> NoExec]
        ELSE [err |-> "", scene |-> SceneAt(sc, ver),
              ran |-> [kind |-> "spawn", cmd |-> t.Program.OpenCmd[plat],
                       args |-> <<sc>>, opts |-> [detach |-> TRUE]]]

\* The loop of CreateTask over this.Subdirs (part_001:338-343): makeDir the
\* program directory for every subdirectory spec that names it.
RECURSIVE makeProgramDir(_, _, _, _, _)
makeProgramDir(f, plat, dir, progDir, subdirs) ==
    IF subdirs = <<>> THEN [err |-> "", fs |-> f]
    ELSE IF Head(subdirs).Name # progDir
    THEN makeProgramDir(f, plat, dir, progDir, Tail(subdirs))
    ELSE LET m == makeDir(f, plat, dir, Head(subdirs).Perm)
         IN  IF m.err # "" THEN m
             ELSE makeProgramDir(m.fs, plat, dir, progDir, Tail(subdirs))

\* PartBranch.CreateTask (part_001:330) up to the start of the command:
\* [err, fs, t, scene, ran].
PartCreateTask(info, f, plat, part, prog, task, ver) ==
    LET fail(e, g) == [err |-> e, fs |-> g, t |-> NoBranch, scene |-> NoScene,
                       ran |-> NoExec]
    IN  IF prog \notin DOMAIN info.programs THEN fail("program not defined", f)
        ELSE LET pa == ProgramAt(part, prog)
                 dir == Join(part.Dir, pa.dir)
             IN  IF pa.err # "" THEN fail(pa.err, f)
                 ELSE LET m == IF existsSync(f, dir) THEN [err |-> "", fs |-> f]
                               ELSE makeProgramDir(f, plat, dir, pa.dir, part.Subdirs)
                      IN  IF m.err # "" THEN fail(m.err, m.fs)
                          ELSE LET t == TaskBranch(part, task, info.programs[prog], dir)
                                   c == TaskCreate(m.fs, plat, t, ver)
                               IN  [err |-> c.err, fs |-> m.fs, t |-> t,
                                    scene |-> c.scene, ran |-> c.ran]

\* PartBranch.Task (part_001:352): the discovered task of that name.
TaskOf(info, f, part, prog, task, order) ==
    LET r == TasksOf(info, f, part, prog, order)
        found == {i \in 1..Len(r.tasks) : r.tasks[i].Name = task}
    IN  IF r.err # "" THEN [err |-> r.err, t |-> NoBranch]
        ELSE IF found = {} THEN [err |-> "no task", t |-> NoBranch]
        ELSE [err |-> "",
              t |-> r.tasks[CHOOSE i \in found : \A j \in found : i <= j]]

\* PartBranch.OpenTask (part_001:348) up to the spawn: [err, t, scene, ran].
PartOpenTask(info, f, plat, part, prog, task, ver, order) ==
    LET r == TaskOf(info, f, part, prog, task, order)
    IN  IF r.err # ""
        THEN [err |-> r.err, t |-> NoBranch, scene |-> NoScene, ran |-> NoExec]
        ELSE LET o == TaskOpen(plat, r.t, ver)
             IN  [err |-> o.err, t |-> r.t, scene |-> o.scene, ran |-> o.ran]

-----------------------------------------------------------------------------
(* The state machine of the scenes of one part *)

MaxFiles == 2

sAB == <<"a", "_", "b">>
sV0 == <<"v", "0">>
sV1 == <<"v", "1">>
sV2 == <<"v", "2">>
sV10 == <<"v", "1", "0">>
sV1x == <<"v", "1", "x">>

\* The callers' arguments; sEmpty is the omitted version.
ProgramNames == {sNuke, sX}
TaskNames == {sA}
VersionArgs == {sEmpty, sV1}

\* What artists save into the program's directory out of band.
SavedTasks == {sA, sAB, sConstructor}
SavedVersions == {sV0, sV1x, sV2, sV10}
SavedScenes ==
    ({sA} \X SavedVersions) \cup ((SavedTasks \ {sA}) \X {sV2})
OtherNames == {<<"a", "_", "a", "_", "a", "_", "c", "o", "m", "p", "_", "a", "_", "v", "2", ".", "x">>,
               <<"a", "_", "a", "_", "a", "_", "c", "o", "m", "p", "_", "a", ".", "n", "k">>}

\* The part shot/a/a/comp of show a.
ThePart(info) ==
    LET show == ShowBranch(info, sA).b
        ctg == CategoryBranch(info, show, sShot).b
        grp == GroupBranch(info, ctg, sA).b
        unit == UnitBranch(info, grp, sA).b
    IN  PartBranch(info, unit, sComp).b

\* The directory of the part's nuke scenes.
ScenesDir == Join(ThePart(SiteInfoOf("own")).Dir, sScenes)

SiteWithPart == (Dirname(ScenesDir) :> Entry("dir")) @@ SiteWithUnit

SiteWithScenes == (ScenesDir :> Entry("dir")) @@ SiteWithPart

SceneCall(op, prog, name, ver, err, branch, list) ==
    [op |-> op, prog |-> prog, name |-> name, ver |-> ver, err |-> err,
     branch |-> branch, list |-> list]

InitScene ==
    /\ platform \in Platforms
    /\ siteInfo \in {SiteInfoOf(s) : s \in {"sub", "none"}}
    /\ fs \in {SiteWithPart, SiteWithScenes}
    /\ made = 0
    /\ held = ThePart(siteInfo)
    /\ last = NoCall
    /\ scene = NoScene
    /\ ran = NoExec
    /\ child = NoChild
    /\ stderr = ""
    /\ calls = <<>>
    /\ env = SiteEnv
    /\ siteFile = siteInfo
    /\ init = Initialized
    /\ procs = NoProcs
    /\ gui = NoGui

Tasks(prog) ==
    \E order \in Listings(fs, held, prog) :
        \E r \in {TasksOf(siteInfo, fs, held, prog, order)} :
            /\ last' = SceneCall("Tasks", prog, sEmpty, sEmpty, r.err, NoBranch, r.tasks)
            /\ scene' = NoScene
            /\ ran' = NoExec
            /\ UNCHANGED <<platform, siteInfo, fs, made, held, spawnVars, initVars, otherVars>>

\* CreateTask, and the create command it waits for: the command writes the
\* scene, writes nothing, or fails.
CreateTask(prog, task, ver) ==
    \E r \in {PartCreateTask(siteInfo, fs, platform, held, prog, task, ver)} :
        \E outcome \in IF r.ran = NoExec THEN {"not run"}
                       ELSE {"written", "nothing", "failed"} :
            LET g == IF outcome = "written" /\ IsDirectory(r.fs, Dirname(r.scene.path))
                     THEN (r.scene.path :> Entry("file")) @@ r.fs
                     ELSE r.fs
                added == Cardinality(DOMAIN g \ DOMAIN fs)
            IN  /\ made + added <= MaxFiles
                /\ fs' = g
                /\ made' = made + added
                /\ last' = SceneCall("CreateTask", prog, task, ver,
                                     IF outcome = "failed" THEN "command failed"
                                     ELSE r.err,
                                     r.t, <<>>)
                /\ scene' = r.scene
                /\ ran' = r.ran
                /\ UNCHANGED <<platform, siteInfo, held, spawnVars, initVars, otherVars>>

OpenTask(prog, task, ver) ==
    \E order \in Listings(fs, held, prog) :
        \E r \in {PartOpenTask(siteInfo, fs, platform, held, prog, task, ver, order)} :
            /\ last' = SceneCall("OpenTask", prog, task, ver, r.err, r.t, <<>>)
            /\ scene' = r.scene
            /\ ran' = r.ran
            /\ UNCHANGED <<platform, siteInfo, fs, made, held, spawnVars, initVars, otherVars>>

\* An entry appears in the program's directory out of band.
ExternalEntry(name, kind) ==
    LET p == Join(ScenesDir, name)
    IN  /\ IsDirectory(fs, ScenesDir)
        /\ ~existsSync(fs, p)
        /\ made < MaxFiles
        /\ fs' = (p :> Entry(kind)) @@ fs
        /\ made' = made + 1
        /\ last' = NoCall
        /\ scene' = NoScene
        /\ ran' = NoExec
        /\ UNCHANGED <<platform, siteInfo, held, spawnVars, initVars, otherVars>>

\* An artist saves a version of a task from the program.
ExternalSaveScene(task, ver) ==
    LET t == TaskBranch(held, task, Program, ScenesDir)
    IN  ExternalEntry(Scene(t, ver)[Len(ScenesDir) + 1], "file")

\* A file that is not a scene.
ExternalWriteOther(name) == ExternalEntry(name, "file")

\* A directory named like a scene.
ExternalMkdirScene ==
    ExternalEntry(Scene(TaskBranch(held, sA, Program, ScenesDir), sV2)[Len(ScenesDir) + 1],
                  "dir")

NextScene ==
    \/ \E prog \in ProgramNames : Tasks(prog)
    \/ \E prog \in ProgramNames : \E task \in TaskNames : \E ver \in VersionArgs :
           CreateTask(prog, task, ver)
    \/ \E prog \in ProgramNames : \E task \in TaskNames : \E ver \in VersionArgs :
           OpenTask(prog, task, ver)
    \/ \E sv \in SavedScenes : ExternalSaveScene(sv[1], sv[2])
    \/ \E name \in OtherNames : ExternalWriteOther(name)
    \/ ExternalMkdirScene

SpecScene == InitScene /\ [][NextScene]_vars

-----------------------------------------------------------------------------
(* Claims about the scenes *)

\* The scene files of the saved tasks whose version is v and digits of a
\* non-zero value.
ValidVersions == {sV1, sV2, sV10}

SceneFileOf(task, ver) ==
    Scene(TaskBranch(held, task, Program, ScenesDir), ver)

\* C6: whenever Tasks(prog) has just been called, every regular file in the
\* program's directory that carries the name Scene gives a non-empty task name
\* and a version v<digits> of non-zero value is returned: Tasks succeeds and
\* its result has a task of exactly that name whose Versions holds exactly that
\* version.
C6_SceneRoundTrip ==
    (last.op = "Tasks" /\ last.prog = sNuke) =>
        \A task \in SavedTasks \cup TaskNames : \A ver \in ValidVersions :
            IsFile(fs, SceneFileOf(task, ver)) =>
                /\ last.err = ""
                /\ \E i \in 1..Len(last.list) :
                       /\ last.list[i].Name = task
                       /\ ver \in Range(last.list[i].Versions)

\* C8: in every result of Tasks(prog) the tasks are in ascending order of
\* name and each task's Versions is in ascending order of the strings' code
\* units, whatever order the directory listing came in.
C8_TasksSorted ==
    (last.op = "Tasks" /\ last.err = "") =>
        /\ IsSorted([i \in 1..Len(last.list) |-> last.list[i].Name])
        /\ \A i \in 1..Len(last.list) : IsSorted(last.list[i].Versions)

\* Tasks returned a task whose versions are v10 then v2.
C8_Witness ==
    /\ last.op = "Tasks"
    /\ last.err = ""
    /\ \E i \in 1..Len(last.list) : last.list[i].Versions = <<sV10, sV2>>

\* The greatest of a non-empty sequence of strings.
Greatest(vs) ==
    CHOOSE v \in Range(vs) : \A w \in Range(vs) : ~StrLess(v, w)

\* C9: OpenTask called without a version, on a task whose discovered Versions
\* is not empty, computes and opens the scene of the last entry of Versions,
\* which is the greatest discovered version.
C9_OpenLatest ==
    (/\ last.op = "OpenTask"
     /\ scene.computed
     /\ scene.ver = sEmpty
     /\ last.branch.Versions # <<>>) =>
        LET vs == last.branch.Versions
            path == Scene(last.branch, Greatest(vs))
        IN  /\ vs[Len(vs)] = Greatest(vs)
            /\ scene.path = path
            /\ ran.kind = "spawn" => ran.args = <<path>>

\* OpenTask without a version started the open command on a task with two
\* discovered versions.
C9_Witness ==
    /\ last.op = "OpenTask"
    /\ scene.computed
    /\ scene.ver = sEmpty
    /\ Len(last.branch.Versions) = 2
    /\ ran.kind = "spawn"

\* A step of CreateTask that computed a scene path where an entry existed
\* fails with the already-exists error and starts no command.
CreateExistingSceneStep ==
    (/\ last'.op = "CreateTask"
     /\ scene'.computed
     /\ existsSync(fs, scene'.path)) =>
        /\ last'.err = "scene already exists"
        /\ ran' = NoExec
        /\ fs' = fs

\* C10: CreateTask fails with the already-exists error when the file at the
\* computed scene path already exists, and then the create command is not run.
C10_CreateExistingScene == [][CreateExistingSceneStep]_vars

\* CreateTask failed on an existing scene.
C10_Witness ==
    /\ last.op = "CreateTask"
    /\ last.err = "scene already exists"
    /\ scene.computed
    /\ IsFile(fs, scene.path)

-----------------------------------------------------------------------------
(* The spawned open command *)

MaxChunks == 3

\* What the open command writes to its standard error, a chunk at a time.
Chunks == {"e", "w"}

\* The exit codes of the child; null when a signal ended it.
ExitCodes == {"0", "1", "null"}

\* let p = proc.spawn(cmd, args, opts); let stderr = "" (part_001:631-632):
\* the child has emitted nothing yet.
Spawned == [spawned |-> TRUE, error |-> FALSE, exit |-> "none"]

\* The site with version v2 of task a saved.
SiteWithScene ==
    (Scene(TaskBranch(ThePart(SiteInfoOf("sub")), sA, Program, ScenesDir), sV2)
        :> Entry("file")) @@ SiteWithScenes

\* OpenTask has called spawn and returned.
InitSpawn ==
    /\ platform = "linux"
    /\ siteInfo = SiteInfoOf("sub")
    /\ fs = SiteWithScene
    /\ made = 0
    /\ held = ThePart(siteInfo)
    /\ \E ver \in {sEmpty, sV2} :
           \E r \in {PartOpenTask(siteInfo, fs, platform, held, sNuke, sA, ver,
                                  CHOOSE o \in Listings(fs, held, sNuke) : TRUE)} :
               /\ last = SceneCall("OpenTask", sNuke, sA, ver, r.err, r.t, <<>>)
               /\ scene = r.scene
               /\ ran = r.ran
    /\ child = Spawned
    /\ stderr = ""
    /\ calls = <<>>
    /\ env = SiteEnv
    /\ siteFile = siteInfo
    /\ init = Initialized
    /\ procs = NoProcs
    /\ gui = NoGui

\* p.stderr.on("data", ...) (part_001:633): the chunk is appended.
StderrData(data) ==
    /\ child.spawned
    /\ Len(stderr) < MaxChunks
    /\ stderr' = stderr \o data
    /\ UNCHANGED <<branchVars, sceneVars, child, calls, initVars, otherVars>>

\* code != 0 (part_001:637), false for the number 0 only.
NotZero(code) == code # "0"

\* p.on("exit", ...) (part_001:636). The child exits at most once; the event
\* may follow an error event.
Exit(code) ==
    /\ child.spawned
    /\ child.exit = "none"
    /\ child' = [child EXCEPT !.exit = code]
    /\ calls' = IF NotZero(code)
                THEN Append(calls, [err |-> "exit with error " \o code \o ": " \o stderr])
                ELSE calls
    /\ UNCHANGED <<branchVars, sceneVars, stderr, initVars, otherVars>>

\* p.on("error", ...) (part_001:642): the process could not be spawned.
Error(err) ==
    /\ child.spawned
    /\ ~child.error
    /\ child.exit = "none"
    /\ child' = [child EXCEPT !.error = TRUE]
    /\ calls' = Append(calls, [err |-> err])
    /\ UNCHANGED <<branchVars, sceneVars, stderr, initVars, otherVars>>

NextSpawn ==
    \/ \E data \in Chunks : StderrData(data)
    \/ \E code \in ExitCodes : Exit(code)
    \/ Error("ENOENT")

SpecSpawn == InitSpawn /\ [][NextSpawn]_vars

\* C7: of one launch, handleError is called exactly once when the process
\* exited with a non-zero status or failed to spawn, never when it exited with
\* status 0, and never twice whatever events came.
C7_CallbackOnce ==
    /\ Len(calls) <= 1
    /\ (child.exit = "0" /\ ~child.error) => calls = <<>>
    /\ (child.error \/ child.exit \notin {"none", "0"}) => Len(calls) = 1

-----------------------------------------------------------------------------
(* Init and the validation of the schema *)

\* siteInfo before Init has assigned it.
Unloaded == [unloaded |-> TRUE]

\* There is no site.json.
NoFile == [nofile |-> TRUE]

NotCalled ==
    [called |-> FALSE, err |-> "", looked |-> FALSE, siteRoot |-> <<>>,
     showRoot |-> <<>>]

\* !process.env.X is false (part_001:18, 23): the variable is set and not empty.
EnvSet(e, n) == n \in DOMAIN e /\ e[n] # sEmpty

\* mustHaveAttrs (part_001:544): the error of the first attribute that is not
\* in obj, "" when all are.
RECURSIVE mustHaveAttrs(_, _)
mustHaveAttrs(obj, attrs) ==
    IF attrs = <<>> THEN ""
    ELSE IF Head(attrs) \notin DOMAIN obj
    THEN "does not have attribute: " \o Head(attrs)
    ELSE mustHaveAttrs(obj, Tail(attrs))

\* validateDir (part_001:608). Every Perm of a document here is a string.
validateDir(d) ==
    LET e == mustHaveAttrs(d, <<"Name", "Perm">>)
    IN  IF e # "" THEN e
        ELSE IF Len(d.Perm) # 4 THEN "permission is not a string of 4 characters"
        ELSE ""

\* for (let d of info.Subdirs) validateDir(label, d) (part_001:601-603).
RECURSIVE validateDirs(_)
validateDirs(subdirs) ==
    IF subdirs = <<>> THEN ""
    ELSE LET e == validateDir(Head(subdirs))
         IN  IF e # "" THEN e ELSE validateDirs(Tail(subdirs))

\* validateBranchInfo (part_001:599).
validateBranchInfo(info) ==
    LET e == mustHaveAttrs(info, <<"Label", "Subdirs", "ChildRoot">>)
    IN  IF e # "" THEN e ELSE validateDirs(info.Subdirs)

\* validatePartInfo (part_001:595).
validatePartInfo(info) ==
    mustHaveAttrs(info, <<"Label", "Subdirs", "ProgramDir">>)

\* validateProgram (part_001:624).
validateProgram(p) ==
    mustHaveAttrs(p, <<"Name", "Ext", "CreateCmd", "OpenCmd">>)

\* An error of the set, "" when it has none. The loops of validateSiteInfo
\* throw the first error in key order; which one it is does not matter here.
AnyError(errs) ==
    IF errs \ {""} = {} THEN "" ELSE CHOOSE e \in errs \ {""} : TRUE

\* The body of the loop over info.categories (part_001:579-588).
validateCategory(ctgInfo) ==
    LET e == mustHaveAttrs(ctgInfo, <<"group", "unit", "part">>)
    IN  IF e # "" THEN e
        ELSE LET g == validateBranchInfo(ctgInfo.group)
             IN  IF g # "" THEN g
                 ELSE LET u == validateBranchInfo(ctgInfo.unit)
                      IN  IF u # "" THEN u
                          ELSE AnyError({validatePartInfo(ctgInfo.part[q]) :
                                            q \in DOMAIN ctgInfo.part})

\* validateSiteInfo (part_001:574): "" when the document is accepted.
validateSiteInfo(info) ==
    LET e == mustHaveAttrs(info, <<"show", "category", "categories", "programs">>)
    IN  IF e # "" THEN e
        ELSE LET s == validateBranchInfo(info.show)
             IN  IF s # "" THEN s
                 ELSE LET c == validateBranchInfo(info.category)
                      IN  IF c # "" THEN c
                          ELSE LET cs == AnyError({validateCategory(info.categories[k]) :
                                                      k \in DOMAIN info.categories})
                               IN  IF cs # "" THEN cs
                                   ELSE AnyError({validateProgram(info.programs[k]) :
                                                     k \in DOMAIN info.programs})

\* The mutant of InitOf that falls back to SITE_ROOT/show when SHOW_ROOT is
\* not set.
InitWithDefault(e, file) ==
    LET fail(msg, looked, site, show, info) ==
            [err |-> msg, looked |-> looked, siteRoot |-> site, showRoot |-> show,
             siteInfo |-> info]
    IN  IF ~EnvSet(e, "SITE_ROOT")
        THEN fail("SITE_ROOT is not set", FALSE, <<>>, <<>>, Unloaded)
        ELSE LET show == IF EnvSet(e, "SHOW_ROOT") THEN <<e.SHOW_ROOT>>
                         ELSE <<e.SITE_ROOT, <<"s", "h", "o", "w">>>>
             IN  IF file = NoFile
                 THEN fail("no site.json in $SITE_ROOT", TRUE, <<e.SITE_ROOT>>, show,
                           Unloaded)
                 ELSE fail(validateSiteInfo(file), TRUE, <<e.SITE_ROOT>>, show, file)

\* Init (part_001:17) in environment e with file at SITE_ROOT/site.json:
\* [err, looked, siteRoot, showRoot, siteInfo], the globals as Init leaves
\* them. looked: Init asked the filesystem for the schema file. siteInfo is
\* assigned before it is validated.
InitOf(e, file) ==
    LET fail(msg, looked, site, show, info) ==
            [err |-> msg, looked |-> looked, siteRoot |-> site, showRoot |-> show,
             siteInfo |-> info]
    IN  IF ~EnvSet(e, "SITE_ROOT")
        THEN fail("SITE_ROOT is not set", FALSE, <<>>, <<>>, Unloaded)
        ELSE IF ~EnvSet(e, "SHOW_ROOT")
        THEN fail("SHOW_ROOT is not set", FALSE, <<e.SITE_ROOT>>, <<>>, Unloaded)
        ELSE IF file = NoFile
        THEN fail("no site.json in $SITE_ROOT", TRUE, <<e.SITE_ROOT>>,
                  <<e.SHOW_ROOT>>, Unloaded)
        ELSE fail(validateSiteInfo(file), TRUE, <<e.SITE_ROOT>>, <<e.SHOW_ROOT>>,
                  file)

-----------------------------------------------------------------------------
(* The state machine of Init *)

\* A valid schema in which every level but category declares subdirectories.
ValidDoc == SiteInfoOf("own")

Without(obj, a) == [k \in DOMAIN obj \ {a} |-> obj[k]]

BranchAttrs == {"Label", "Subdirs", "ChildRoot"}

\* Every required attribute of ValidDoc, as <<where, attribute>>.
RequiredAttrs ==
    ({"top"} \X {"show", "category", "categories", "programs"})
    \cup ({"show", "category", "group", "unit"} \X BranchAttrs)
    \cup ({"ctg"} \X {"group", "unit", "part"})
    \cup ({"part"} \X {"Label", "Subdirs", "ProgramDir"})
    \cup ({"program"} \X {"Name", "Ext", "CreateCmd", "OpenCmd"})
    \cup ({"showdir", "groupdir", "unitdir", "partdir"} \X {"Name", "Perm"})

\* doc with the object at where changed by Change.
ChangeAt(doc, where, Change(_)) ==
    CASE where = "top" -> Change(doc)
      [] where = "show" -> [doc EXCEPT !.show = Change(@)]
      [] where = "category" -> [doc EXCEPT !.category = Change(@)]
      [] where = "ctg" -> [doc EXCEPT !.categories[sShot] = Change(@)]
      [] where = "group" -> [doc EXCEPT !.categories[sShot].group = Change(@)]
      [] where = "unit" -> [doc EXCEPT !.categories[sShot].unit = Change(@)]
      [] where = "part" -> [doc EXCEPT !.categories[sShot].part[sComp] = Change(@)]
      [] where = "program" -> [doc EXCEPT !.programs[sNuke] = Change(@)]
      [] where = "showdir" -> [doc EXCEPT !.show.Subdirs[1] = Change(@)]
      [] where = "groupdir" ->
            [doc EXCEPT !.categories[sShot].group.Subdirs[1] = Change(@)]
      [] where = "unitdir" ->
            [doc EXCEPT !.categories[sShot].unit.Subdirs[1] = Change(@)]
      [] where = "partdir" ->
            [doc EXCEPT !.categories[sShot].part[sComp].Subdirs[1] = Change(@)]

\* ValidDoc with one required attribute removed.
DocWithout(r) == ChangeAt(ValidDoc, r[1], LAMBDA obj : Without(obj, r[2]))

\* Permissions that are strings of 3 and of 5 characters.
BadPerms == {<<"7", "7", "5">>, <<"0", "2", "7", "7", "5">>}

DirPlaces == {"showdir", "groupdir", "unitdir", "partdir"}

\* ValidDoc with the permission of one subdirectory spec changed.
DocWithPerm(where, perm) ==
    ChangeAt(ValidDoc, where, LAMBDA d : [d EXCEPT !.Perm = perm])

\* ValidDoc whose part comp also places the program x, which the programs
\* map does not hold.
DocWithProgram ==
    ChangeAt(ValidDoc, "part", LAMBDA q : [q EXCEPT !.ProgramDir = @ @@ (sX :> sScenes)])

Docs ==
    {ValidDoc, DocWithProgram} \cup {DocWithout(r) : r \in RequiredAttrs}
    \cup {DocWithPerm(w, q) : w \in DirPlaces, q \in BadPerms}

\* process.env with each of the two variables unset, empty or set.
EnvVar(n, how, v) ==
    IF how = "unset" THEN [k \in {} |-> v]
    ELSE [k \in {n} |-> IF how = "empty" THEN sEmpty ELSE v]

Envs ==
    {EnvVar("SITE_ROOT", a, sSiteRoot) @@ EnvVar("SHOW_ROOT", b, sShowRoot) :
        a \in {"unset", "empty", "set"}, b \in {"unset", "empty", "set"}}

\* The process has started; Init was not called yet.
InitInit ==
    /\ platform \in Platforms
    /\ siteInfo = Unloaded
    /\ fs = SiteWithUnit
    /\ made = 0
    /\ held = NoBranch
    /\ last = NoCall
    /\ scene = NoScene
    /\ ran = NoExec
    /\ child = NoChild
    /\ stderr = ""
    /\ calls = <<>>
    /\ env \in Envs
    /\ siteFile \in Docs \cup {NoFile}
    /\ init = NotCalled
    /\ procs = NoProcs
    /\ gui = NoGui

\* The call of Init (part_001:17).
Init ==
    /\ ~init.called
    /\ \E r \in {InitOf(env, siteFile)} :
           /\ init' = [called |-> TRUE, err |-> r.err, looked |-> r.looked,
                       siteRoot |-> r.siteRoot, showRoot |-> r.showRoot]
           /\ siteInfo' = r.siteInfo
    /\ UNCHANGED <<platform, fs, made, held, last, sceneVars, spawnVars, env, siteFile,
                   otherVars>>

\* Init returned without an error.
Loaded == init.called /\ init.err = ""

\* After Init the caller walks to unit a and creates the part comp.
NextInit ==
    \/ Init
    \/ Loaded /\ Show(sA)
    \/ Loaded /\ Category(sShot)
    \/ Loaded /\ Group(sA)
    \/ Loaded /\ Unit(sA)
    \/ Loaded /\ CreatePart(sComp)

SpecInit == InitInit /\ [][NextInit]_vars

-----------------------------------------------------------------------------
(* Claims about Init *)

\* Both root variables are set and not empty.
RootsSet == EnvSet(env, "SITE_ROOT") /\ EnvSet(env, "SHOW_ROOT")

\* C11: a schema that is a valid schema with any single required attribute
\* removed (a top-level key, an attribute of a branch info, of a category, of
\* a part, of a program, or Name or Perm of a subdirectory spec, those of
\* parts included) makes Init fail.
C11_MissingAttrFails ==
    (/\ init.called
     /\ RootsSet
     /\ siteFile \in {DocWithout(r) : r \in RequiredAttrs}) => init.err # ""

\* Every permission of every directory made is a string of 4 characters.
PermsOfFour == \A q \in DOMAIN fs : Len(fs[q].perm) = 4

\* C12: a schema with a subdirectory spec, of show, group, unit or a part,
\* whose permission is not a string of 4 characters makes Init fail, and no
\* permission of another length reaches the creation of a directory.
C12_BadPermFails ==
    /\ (/\ init.called
        /\ RootsSet
        /\ siteFile \in {DocWithPerm(w, q) : w \in DirPlaces, q \in BadPerms})
       => init.err # ""
    /\ PermsOfFour

C22_PartProgramsDeclared ==
    Loaded =>
        \A c \in DOMAIN siteInfo.categories :
            \A q \in DOMAIN siteInfo.categories[c].part :
                DOMAIN siteInfo.categories[c].part[q].ProgramDir
                    \subseteq DOMAIN siteInfo.programs

\* C28: when Init fails, the schema of the process is what it was before the
\* call: the document that was rejected is not installed.
C28_FailedInitInstallsNothing ==
    (init.called /\ init.err # "") => siteInfo = Unloaded

-----------------------------------------------------------------------------
(* More claims about the scenes *)

\* C13: the spawn request of OpenTask asks for a detached child, and the call
\* that started the command returned without an error.
C13_OpenDetached ==
    ran.kind = "spawn" =>
        /\ "detached" \in DOMAIN ran.opts
        /\ ran.opts.detached
        /\ last.err = ""

\* A path as the string the program passes around.
RECURSIVE PathString(_)
PathString(q) ==
    IF q = <<>> THEN <<>>
    ELSE IF Len(q) = 1 THEN q[1]
    ELSE q[1] \o <<"/">> \o PathString(Tail(q))

\* The environment of the started command: the env option when the request
\* has one, else the caller's own.
ChildEnv ==
    IF "opts" \in DOMAIN ran /\ "env" \in DOMAIN ran.opts THEN ran.opts.env ELSE env

HasValue(e, v) == \E k \in DOMAIN e : e[k] = v

\* The task and the branches above it.
Chain(t) ==
    {t} \cup {getParent(t, ty) : ty \in {"part", "unit", "group", "category", "show"}}

\* C14: every create or open command is started with the scene path as its
\* only argument and with an environment that holds the name and the directory
\* of the show, category, group, unit, part and task.
C14_CommandEnv ==
    ran.kind # "none" =>
        /\ ran.args = <<scene.path>>
        /\ \A b \in Chain(last.branch) :
               /\ HasValue(ChildEnv, b.Name)
               /\ HasValue(ChildEnv, PathString(b.Dir))

\* The versions Tasks discovers for a task of the nuke program.
DiscoveredVersions(task) ==
    {v \in SavedVersions \cup {sV1, sUndefined} :
        IsFile(fs, SceneFileOf(task, v)) /\ AcceptsVersion(v)}

\* C15: OpenTask without a version for a task that has no discovered version
\* fails with the no-version error and starts no command.
C15_NoVersionError ==
    (/\ last.op = "OpenTask"
     /\ last.prog = sNuke
     /\ last.ver = sEmpty
     /\ DiscoveredVersions(last.name) = {}) =>
        /\ last.err = "no version"
        /\ ran = NoExec

\* A step of CreateTask or OpenTask that came to look the command up (for
\* CreateTask: the scene did not exist) on a platform the program has no
\* command for fails with the unsupported-platform error and starts nothing.
UnsupportedPlatformStep ==
    (/\ last'.op \in {"CreateTask", "OpenTask"}
     /\ scene'.computed
     /\ last'.op = "CreateTask" => ~existsSync(fs, scene'.path)
     /\ platform \notin DOMAIN (IF last'.op = "CreateTask"
                                THEN last'.branch.Program.CreateCmd
                                ELSE last'.branch.Program.OpenCmd)) =>
        /\ last'.err = "not supported os"
        /\ ran' = NoExec

IsVDigits(v) ==
    /\ Len(v) >= 2
    /\ v[1] = "v"
    /\ \A i \in 2..Len(v) : IsDigit(v[i])
    /\ \E i \in 2..Len(v) : v[i] # "0"

\* C18: every version in a result of Tasks is v followed only by digits that
\* denote a non-zero number.
C18_VersionsAreVDigits ==
    (last.op = "Tasks" /\ last.err = "") =>
        \A i \in 1..Len(last.list) :
            \A v \in Range(last.list[i].Versions) : IsVDigits(v)

\* The <<task, version>> pairs of a result of Tasks.
Reported ==
    UNION {{<<last.list[i].Name, v>> : v \in Range(last.list[i].Versions)} :
              i \in 1..Len(last.list)}

\* The <<task, version>> pairs of the regular files in the program's
\* directory that carry a scene name with an accepted version.
Expected ==
    {c \in (SavedTasks \cup TaskNames) \X (SavedVersions \cup {sV1, sUndefined}) :
        IsFile(fs, SceneFileOf(c[1], c[2])) /\ AcceptsVersion(c[2])}

\* C19: Tasks reports each scene file under the task named by all tokens but
\* the last and the version named by the last token, and nothing else; other
\* entries of the directory are passed over and never make the scan fail.
C19_LastTokenIsVersion ==
    (last.op = "Tasks" /\ last.prog = sNuke) =>
        /\ last.err = "" => Reported = Expected
        /\ last.err # "" => \E c \in Expected : c[1] \in ObjectPrototypeKeys

\* Tasks reported version v2 of task a_b next to a file that is not a scene.
C19_Witness ==
    /\ last.op = "Tasks"
    /\ last.err = ""
    /\ <<sAB, sV2>> \in Reported
    /\ \E n \in OtherNames : IsFile(fs, Join(ScenesDir, n))

\* C20: after a non-zero exit handleError got an error whose message holds the
\* exit code and all the text the child wrote to its standard error, whatever
\* the order of the data events and the exit event.
C20_MessageHasAllStderr ==
    child.exit \notin {"none", "0"} =>
        \E i \in 1..Len(calls) :
            calls[i].err = "exit with error " \o child.exit \o ": " \o stderr

\* The versions a started command's scene may carry: the version the caller
\* gave, when it gave one, and the versions discovered for the task.
AllowedVersions ==
    (IF scene.ver = sEmpty THEN {} ELSE {scene.ver}) \cup Range(last.branch.Versions)

\* C26: the scene path given to a create or open command is the scene of the
\* task for the caller's non-empty version or for one of the task's
\* discovered versions, never for an absent version.
C26_SceneVersionNeverAbsent ==
    ran.kind # "none" =>
        \E v \in AllowedVersions : ran.args = <<Scene(last.branch, v)>>

\* C27: when CreateTask starts the create command, the program directory
\* that is to hold the scene file is a directory.
C27_ProgramDirExists ==
    ran.kind = "execFileSync" => IsDirectory(fs, last.branch.Dir)

-----------------------------------------------------------------------------
(* Listing the parts of a unit *)

\* A schema that declares a second part, b, next to comp.
SiteInfoTwoParts ==
    [SiteInfoOf("own") EXCEPT
        !.categories[sShot].part =
            @ @@ (sB :> [Label |-> "b", Subdirs |-> <<Dir(sEmpty, p2775)>>,
                         ProgramDir |-> (sNuke :> sEmpty)])]

\* A site with unit a of show a, with or without its part comp; the caller
\* walks down to the unit and lists its parts while directories and files
\* appear under the part root.
InitParts ==
    /\ platform \in Platforms
    /\ siteInfo \in {SiteInfoOf(s) : s \in Shapes} \cup {SiteInfoTwoParts}
    /\ fs \in {SiteWithUnit, SiteWithPart}
    /\ made = 0
    /\ held = NoBranch
    /\ last = NoCall
    /\ scene = NoScene
    /\ ran = NoExec
    /\ child = NoChild
    /\ stderr = ""
    /\ calls = <<>>
    /\ env = SiteEnv
    /\ siteFile = siteInfo
    /\ init = Initialized
    /\ procs = NoProcs
    /\ gui = NoGui

NextParts ==
    \/ Show(sA)
    \/ Category(sShot)
    \/ Group(sA)
    \/ Unit(sA)
    \/ \E n \in PartNames : CreatePart(n)
    \/ \E n \in PartNames : Part(n)
    \/ Parts
    \/ ExternalMkdir
    \/ ExternalWriteFile

SpecParts == InitParts /\ [][NextParts]_vars

\* The parts the schema declares for the category of the unit held.
DeclaredParts == DOMAIN siteInfo.categories[CtgOf(held)].part

-----------------------------------------------------------------------------
(* Names that path.join resolves: "." and ".." *)

\* The names a caller passes for a show, a group or a unit.
ResolvedNames == {sA, sDot, sDotDot}

NextNames ==
    \/ \E n \in ResolvedNames : CreateShow(n)
    \/ \E n \in ResolvedNames : Show(n)
    \/ Category(sShot)
    \/ \E n \in ResolvedNames : CreateGroup(n)
    \/ \E n \in ResolvedNames : Group(n)
    \/ \E n \in ResolvedNames : CreateUnit(n)
    \/ \E n \in ResolvedNames : Unit(n)

SpecNames == InitBranch /\ [][NextNames]_vars

\* Path d lies strictly beneath path r.
StrictlyBeneath(d, r) == Len(d) > Len(r) /\ SubSeq(d, 1, Len(r)) = r

\* The childRootPath of the parent of a branch: SHOW_ROOT for a show.
ParentChildRoot(b) == IF b.Type = "show" THEN showRoot ELSE b.Parent.ChildRoot

\* C25: the directory of a branch that Create or Get resolved for a name that
\* is not empty lies strictly beneath the childRootPath of its parent, and
\* every directory made lies beneath SHOW_ROOT.
C25_ChildBeneathParent ==
    /\ (/\ last.op \in {"Create", "Get"}
        /\ last.err = ""
        /\ last.name # sEmpty)
       => StrictlyBeneath(last.branch.Dir, ParentChildRoot(last.branch))
    /\ \A q \in DOMAIN fs \ DOMAIN EmptySite : StrictlyBeneath(q, showRoot)

-----------------------------------------------------------------------------
(* The discovery of the hard-coded variant (part_000) next to Tasks *)

\* tasks[task].Versions.push(version), after tasks[task] was set to a new Task
\* when it was falsy (part_000:436-439). tasks is a plain object, as taskMap
\* is in Tasks.
PushTask(acc, task, version) ==
    IF \E i \in 1..Len(acc.map) : acc.map[i].Name = task
    THEN [err |-> "",
          map |-> [i \in 1..Len(acc.map) |->
                      IF acc.map[i].Name = task
                      THEN [acc.map[i] EXCEPT !.Versions = Append(@, version)]
                      ELSE acc.map[i]]]
    ELSE IF task \in ObjectPrototypeKeys
    THEN [err |-> "TypeError", map |-> acc.map]
    ELSE [err |-> "", map |-> Append(acc.map, [Name |-> task, Versions |-> <<version>>])]

\* The body of the loop of Program.ListTasks for one entry (part_000:418-440).
ListTasksFile(f, dir, ext, prefix, acc, name) ==
    IF acc.err # "" THEN acc
    ELSE IF ~IsFile(f, Join(dir, name)) THEN acc
    ELSE IF ~endsWith(name, ext) THEN acc
    ELSE LET f1 == SubSeq(name, 1, Len(name) - Len(ext))
         IN  IF ~startsWith(f1, prefix) THEN acc
             ELSE LET ws == split(substring(f1, Len(prefix)))
                  IN  IF Len(ws) # 2 THEN acc
                      ELSE IF ~AcceptsVersion(ws[2]) THEN acc
                      ELSE PushTask(acc, ws[1], ws[2])

RECURSIVE ListTasksFiles(_, _, _, _, _, _)
ListTasksFiles(f, dir, ext, prefix, acc, order) ==
    IF order = <<>> THEN acc
    ELSE ListTasksFiles(f, dir, ext, prefix,
                        ListTasksFile(f, dir, ext, prefix, acc, Head(order)),
                        Tail(order))

\* Program.ListTasks(prj, grp, unit, part) (part_000:414) of a program with
\* the given Dir and Ext, on a listing returned in the given order:
\* [err, tasks], the tasks in the order their keys were added.
ListTasks(f, dir, ext, prj, grp, unit, part, order) ==
    IF ~existsSync(f, dir) THEN [err |-> "ENOENT", tasks |-> <<>>]
    ELSE IF ~IsDirectory(f, dir) THEN [err |-> "ENOTDIR", tasks |-> <<>>]
    ELSE LET prefix == prj \o sUnderscore \o grp \o sUnderscore \o unit
                       \o sUnderscore \o part \o sUnderscore
             acc == ListTasksFiles(f, dir, ext, prefix, [err |-> "", map |-> <<>>],
                                   order)
         IN  [err |-> acc.err, tasks |-> IF acc.err # "" THEN <<>> ELSE acc.map]

MaxListed == 2

sProto == <<"_", "_", "p", "r", "o", "t", "o", "_", "_">>

\* The scenes that may lie in the program's directory, as <<task, version>>.
ListedScenes ==
    {<<sA, sV1>>, <<sA, sV2>>, <<sA, sV1x>>, <<sB, sV2>>, <<sAB, sV2>>,
     <<sConstructor, sV2>>, <<sProto, sV2>>}

\* The file name of a scene of the part comp.
SceneName(c) ==
    LET t == TaskBranch(ThePart(SiteInfoOf("sub")), c[1], Program, ScenesDir)
    IN  Scene(t, c[2])[Len(ScenesDir) + 1]

ListedNames == {SceneName(c) : c \in ListedScenes} \cup OtherNames

\* The site with the given files in the program's directory.
SiteWithFiles(names) ==
    [q \in {Join(ScenesDir, n) : n \in names} |-> Entry("file")] @@ SiteWithScenes

\* The <<task, version>> pairs of a result; a call that threw reported none.
PairsOf(r) ==
    IF r.err # "" THEN {}
    ELSE UNION {{<<r.tasks[i].Name, v>> : v \in Range(r.tasks[i].Versions)} :
                   i \in 1..Len(r.tasks)}

NotRun == [done |-> FALSE]

Discovery(hard, schema) == [op |-> "Discovery", hard |-> hard, schema |-> schema]

InitDiscovery ==
    /\ platform = "linux"
    /\ siteInfo = SiteInfoOf("sub")
    /\ fs \in {SiteWithFiles(names) :
                  names \in {ns \in SUBSET ListedNames : Cardinality(ns) <= MaxListed}}
    /\ made = 0
    /\ held = ThePart(siteInfo)
    /\ last = Discovery(NotRun, NotRun)
    /\ scene = NoScene
    /\ ran = NoExec
    /\ child = NoChild
    /\ stderr = ""
    /\ calls = <<>>
    /\ env = SiteEnv
    /\ siteFile = siteInfo
    /\ init = Initialized
    /\ procs = NoProcs
    /\ gui = NoGui

\* The hard-coded program lists the tasks of the part's program directory.
HardListTasks ==
    /\ ~last.hard.done
    /\ \E order \in Orders(readdirSync(fs, ScenesDir)) :
           \E r \in {ListTasks(fs, ScenesDir, Program.Ext,
                                getParent(held, "show").Name,
                                getParent(held, "group").Name,
                                getParent(held, "unit").Name, held.Name, order)} :
               last' = [last EXCEPT
                           !.hard = [done |-> TRUE, err |-> r.err, pairs |-> PairsOf(r)]]
    /\ UNCHANGED <<platform, siteInfo, fs, made, held, sceneVars, spawnVars, initVars,
                   otherVars>>

\* The schema-driven part lists the tasks of the same directory.
SchemaTasks ==
    /\ ~last.schema.done
    /\ \E order \in Listings(fs, held, sNuke) :
           \E r \in {TasksOf(siteInfo, fs, held, sNuke, order)} :
               last' = [last EXCEPT
                           !.schema = [done |-> TRUE, err |-> r.err,
                                       pairs |-> PairsOf(r)]]
    /\ UNCHANGED <<platform, siteInfo, fs, made, held, sceneVars, spawnVars, initVars,
                   otherVars>>

NextDiscovery == HardListTasks \/ SchemaTasks

SpecDiscovery == InitDiscovery /\ [][NextDiscovery]_vars

NoUnderscore(c) == \A i \in 1..Len(c[1]) : c[1][i] # "_"

\* C24: on the same directory, prefix fields and extension, every <<task,
\* version>> pair the hard-coded ListTasks reports is reported by Tasks too,
\* and for the tasks whose name has no underscore the two report the same
\* pairs.
C24_HardCodedIsSpecialCase ==
    (last.op = "Discovery" /\ last.hard.done /\ last.schema.done) =>
        /\ last.hard.pairs \subseteq last.schema.pairs
        /\ {c \in last.hard.pairs : NoUnderscore(c)}
               = {c \in last.schema.pairs : NoUnderscore(c)}

-----------------------------------------------------------------------------
(* Two processes that create the same show *)

Procs == {1, 2}

Idle == [pc |-> "idle"]

Done(q, err) == [q EXCEPT !.pc = "done", !.err = err]

\* The call goes on to the makeDir of its next subdirectory, or returns.
NextSubdir(q) ==
    IF q.i + 1 > Len(q.b.Subdirs) THEN Done(q, "")
    ELSE [q EXCEPT !.pc = "mkdir", !.i = q.i + 1]

\* The directory the call is making: path.join(dir, d.Name) (part_001:104).
SubdirPath(q) == Join(q.b.Dir, q.b.Subdirs[q.i].Name)

\* CreateShow(name) is called in process p (part_001:101): the branch is
\* constructed; the loop over its Subdirs is entered.
BeginCreateShow(p, name) ==
    /\ procs[p].pc = "idle"
    /\ LET b == ShowBranch(siteInfo, name).b
           q == [pc |-> "mkdir", name |-> name, b |-> b, i |-> 1, err |-> ""]
       IN  procs' = [procs EXCEPT ![p] = IF b.Subdirs = <<>> THEN Done(q, "") ELSE q]
    /\ UNCHANGED <<branchVars, sceneVars, spawnVars, initVars, gui>>

\* fs.mkdirSync(d) of makeDir (part_001:478) in process p.
StepMkdir(p) ==
    /\ procs[p].pc = "mkdir"
    /\ \E m \in {mkdirSync(fs, SubdirPath(procs[p]))} :
           /\ fs' = m.fs
           /\ procs' = [procs EXCEPT ![p] = IF m.err # "" THEN Done(@, m.err)
                                            ELSE [@ EXCEPT !.pc = "chmod"]]
    /\ UNCHANGED <<platform, siteInfo, made, held, last, sceneVars, spawnVars, initVars,
                   gui>>

\* fs.chmodSync(d, perm) of makeDir (part_001:479) in process p.
StepChmod(p) ==
    /\ procs[p].pc = "chmod"
    /\ fs' = chmodSync(fs, SubdirPath(procs[p]), procs[p].b.Subdirs[procs[p].i].Perm)
    /\ procs' = [procs EXCEPT ![p] = IF platform = "win32"
                                     THEN [@ EXCEPT !.pc = "icacls"]
                                     ELSE NextSubdir(@)]
    /\ UNCHANGED <<platform, siteInfo, made, held, last, sceneVars, spawnVars, initVars,
                   gui>>

\* The icacls grant of makeDir on win32 (part_001:480-493) in process p.
StepIcacls(p) ==
    /\ procs[p].pc = "icacls"
    /\ fs' = Icacls(fs, SubdirPath(procs[p]), procs[p].b.Subdirs[procs[p].i].Perm)
    /\ procs' = [procs EXCEPT ![p] = NextSubdir(@)]
    /\ UNCHANGED <<platform, siteInfo, made, held, last, sceneVars, spawnVars, initVars,
                   gui>>

InitRace ==
    /\ platform \in Platforms
    /\ siteInfo \in {SiteInfoOf(s) : s \in Shapes}
    /\ fs = EmptySite
    /\ made = 0
    /\ held = NoBranch
    /\ last = NoCall
    /\ scene = NoScene
    /\ ran = NoExec
    /\ child = NoChild
    /\ stderr = ""
    /\ calls = <<>>
    /\ env = SiteEnv
    /\ siteFile = siteInfo
    /\ init = Initialized
    /\ procs = [p \in Procs |-> Idle]
    /\ gui = NoGui

NextRace ==
    \E p \in Procs :
        \/ \E n \in ShowNames : BeginCreateShow(p, n)
        \/ StepMkdir(p)
        \/ StepChmod(p)
        \/ StepIcacls(p)

SpecRace == InitRace /\ [][NextRace]_vars

\* C21: when two calls of CreateShow for the same name have run with their
\* filesystem steps interleaved, one of them returned without an error and
\* the other failed with the already-exists error.
C21_RaceOneWins ==
    (/\ \A p \in Procs : procs[p].pc = "done"
     /\ procs[1].name = procs[2].name) =>
        \E p \in Procs :
            /\ procs[p].err = ""
            /\ \A o \in Procs \ {p} : procs[o].err = "EEXIST"

-----------------------------------------------------------------------------
(* Two processes that create the same scene *)

RaceVersions == {sV1, sV2}

\* TaskBranch.Create(ver) is called in process p (part_001:435) for task a of
\* the part held: the scene path is computed (part_001:436).
BeginCreateScene(p, ver) ==
    /\ procs[p].pc = "idle"
    /\ LET t == TaskBranch(held, sA, siteInfo.programs[sNuke], ScenesDir)
       IN  procs' = [procs EXCEPT ![p] =
                        [pc |-> "exists", t |-> t, path |-> Scene(t, ver), err |-> "",
                         invoked |-> FALSE, outcome |-> "not run"]]
    /\ UNCHANGED <<branchVars, sceneVars, spawnVars, initVars, gui>>

\* if (fs.existsSync(scene)) throw (part_001:437-439) in process p.
StepExists(p) ==
    /\ procs[p].pc = "exists"
    /\ procs' = [procs EXCEPT ![p] =
                     IF existsSync(fs, @.path) THEN Done(@, "scene already exists")
                     ELSE [@ EXCEPT !.pc = "launch"]]
    /\ UNCHANGED <<branchVars, sceneVars, spawnVars, initVars, gui>>

\* The lookup of the command and proc.execFileSync(create, [scene])
\* (part_001:440-445) in process p; the call waits for the command, which
\* writes the scene, writes nothing, or fails.
StepLaunch(p) ==
    /\ procs[p].pc = "launch"
    /\ IF platform \notin DOMAIN procs[p].t.Program.CreateCmd
       THEN /\ procs' = [procs EXCEPT ![p] = Done(@, "not supported os")]
            /\ fs' = fs
       ELSE \E outcome \in {"written", "nothing", "failed"} :
                /\ procs' = [procs EXCEPT ![p] =
                                 [Done(@, IF outcome = "failed" THEN "command failed"
                                          ELSE "")
                                     EXCEPT !.invoked = TRUE, !.outcome = outcome]]
                /\ fs' = IF outcome = "written"
                         THEN (procs[p].path :> Entry("file")) @@ fs
                         ELSE fs
    /\ UNCHANGED <<platform, siteInfo, made, held, last, sceneVars, spawnVars, initVars,
                   gui>>

InitSceneRace ==
    /\ platform \in Platforms
    /\ siteInfo \in {SiteInfoOf(s) : s \in {"sub", "none"}}
    /\ fs = SiteWithScenes
    /\ made = 0
    /\ held = ThePart(siteInfo)
    /\ last = NoCall
    /\ scene = NoScene
    /\ ran = NoExec
    /\ child = NoChild
    /\ stderr = ""
    /\ calls = <<>>
    /\ env = SiteEnv
    /\ siteFile = siteInfo
    /\ init = Initialized
    /\ procs = [p \in Procs |-> Idle]
    /\ gui = NoGui

NextSceneRace ==
    \E p \in Procs :
        \/ \E ver \in RaceVersions : BeginCreateScene(p, ver)
        \/ StepExists(p)
        \/ StepLaunch(p)

SpecSceneRace == InitSceneRace /\ [][NextSceneRace]_vars

\* C29: when two calls of Create for the same scene path have run on a
\* platform that has the create command, with the existence test and the
\* launch of each interleaved, and every command that was started wrote the
\* scene, then one call did not start the command and failed with the
\* already-exists error.
C29_RaceOneLaunch ==
    (/\ \A p \in Procs : procs[p].pc = "done"
     /\ procs[1].path = procs[2].path
     /\ platform \in DOMAIN procs[1].t.Program.CreateCmd
     /\ \A p \in Procs : procs[p].invoked => procs[p].outcome = "written") =>
        \E p \in Procs :
            /\ ~procs[p].invoked
            /\ procs[p].err = "scene already exists"

-----------------------------------------------------------------------------
(* The front-end (elo.js): four boxes, their selections, the pins *)

\* The site as the front-end sees it through site.js: the projects, and the
\* shots, tasks and elements as paths of names. A name that is sEmpty stands
\* for null: nothing of that kind is selected.
EmptyTree == [projects |-> {}, shots |-> {}, tasks |-> {}, elems |-> {}]

SortedSeq(names) == SortStrings(CHOOSE o \in Orders(names) : TRUE)

\* site.projects(), site.shotsOf(prj), site.tasksOf(prj, shot) and the keys of
\* site.elementsOf(prj, shot, task).
siteProjects(t) == SortedSeq(t.projects)

siteShotsOf(t, prj) == SortedSeq({c[2] : c \in {d \in t.shots : d[1] = prj}})

siteTasksOf(t, prj, shot) ==
    SortedSeq({c[3] : c \in {d \in t.tasks : d[1] = prj /\ d[2] = shot}})

siteElementsOf(t, prj, shot, task) ==
    SortedSeq({c[4] : c \in {d \in t.elems : d[1] = prj /\ d[2] = shot /\ d[3] = task}})

\* site.createProject, createShot, createTask, createElement: [err, t]. Each
\* throws when its parent is missing or the item exists.
siteCreateProject(t, prj) ==
    IF prj \in t.projects THEN [err |-> "project exists", t |-> t]
    ELSE [err |-> "", t |-> [t EXCEPT !.projects = @ \cup {prj}]]

siteCreateShot(t, prj, shot) ==
    IF prj \notin t.projects THEN [err |-> "no project", t |-> t]
    ELSE IF <<prj, shot>> \in t.shots THEN [err |-> "shot exists", t |-> t]
    ELSE [err |-> "", t |-> [t EXCEPT !.shots = @ \cup {<<prj, shot>>}]]

siteCreateTask(t, prj, shot, task) ==
    IF <<prj, shot>> \notin t.shots THEN [err |-> "no shot", t |-> t]
    ELSE IF <<prj, shot, task>> \in t.tasks THEN [err |-> "task exists", t |-> t]
    ELSE [err |-> "", t |-> [t EXCEPT !.tasks = @ \cup {<<prj, shot, task>>}]]

siteCreateElement(t, prj, shot, task, elem) ==
    IF <<prj, shot, task>> \notin t.tasks THEN [err |-> "no task", t |-> t]
    ELSE IF <<prj, shot, task, elem>> \in t.elems
    THEN [err |-> "element exists", t |-> t]
    ELSE [err |-> "", t |-> [t EXCEPT !.elems = @ \cup {<<prj, shot, task, elem>>}]]

\* site.createDefaultElements: the task gets its default element, x.
siteCreateDefaultElements(t, prj, shot, task) ==
    siteCreateElement(t, prj, shot, task, sX)

\* The outcome of a function of the front-end: it returned, or threw err,
\* leaving the page as g.
Ok(g) == [err |-> "", g |-> g]
Throw(err, g) == [err |-> err, g |-> g]
Then(r, F(_)) == IF r.err # "" THEN r ELSE F(r.g)

\* notify and clearNotify (elo.js:269, 275).
notify(g, text) == [g EXCEPT !.note = text]
clearNotify(g) == [g EXCEPT !.note = ""]

\* currentProject, currentShot, currentTask, currentElement (elo.js:537-558).
currentProject(g) == g.project
currentShot(g) == g.shot
currentTask(g) == g.task
currentElement(g) == g.element

\* The pinned names first, then the others (elo.js:602-611, 636-646).
PinnedFirst(names, IsPinned(_)) ==
    SelectSeq(names, IsPinned) \o SelectSeq(names, LAMBDA n : ~IsPinned(n))

\* clearShots, clearTasks, clearElements (elo.js:789-810): the box loses its
\* items, and with them its selection.
clearShots(g) == [g EXCEPT !.shotBox = <<>>, !.shot = sEmpty]
clearTasks(g) == [g EXCEPT !.taskBox = <<>>, !.task = sEmpty]
clearElements(g) == [g EXCEPT !.elementBox = <<>>, !.element = sEmpty]

\* reloadProjects (elo.js:597): the box is emptied and filled with new items,
\* none of which is selected.
reloadProjects(g) ==
    Ok([g EXCEPT !.projectBox = PinnedFirst(siteProjects(g.site),
                                            LAMBDA n : n \in g.pinnedProject),
                 !.project = sEmpty])

\* reloadShots (elo.js:628).
reloadShots(g) ==
    IF currentProject(g) = sEmpty THEN Throw("no project selected", g)
    ELSE Ok([g EXCEPT !.shotBox =
                          PinnedFirst(siteShotsOf(g.site, g.project),
                                      LAMBDA n : <<g.project, n>> \in g.pinnedShot),
                      !.shot = sEmpty])

\* reloadTasks (elo.js:664).
reloadTasks(g) ==
    IF currentProject(g) = sEmpty THEN Throw("no project selected", g)
    ELSE IF currentShot(g) = sEmpty THEN Throw("no shot selected", g)
    ELSE Ok([g EXCEPT !.taskBox = siteTasksOf(g.site, g.project, g.shot),
                      !.task = sEmpty])

\* reloadElements (elo.js:688); the items of the versions are left out.
reloadElements(g) ==
    IF currentProject(g) = sEmpty THEN Throw("no project selected", g)
    ELSE IF currentShot(g) = sEmpty THEN Throw("no shot selected", g)
    ELSE IF currentTask(g) = sEmpty THEN Throw("no task selected", g)
    ELSE Ok([g EXCEPT !.elementBox = siteElementsOf(g.site, g.project, g.shot, g.task),
                      !.element = sEmpty])

\* selectElement (elo.js:521): the selection moves to the item of elem;
\* getElementById returns null when the box has no such item.
selectElement(g, elem) ==
    LET u == [clearNotify(g) EXCEPT !.element = sEmpty]
    IN  IF elem \notin Range(g.elementBox) THEN Throw("TypeError", u)
        ELSE Ok([u EXCEPT !.element = elem])

\* selectTask (elo.js:496).
selectTask(g, task) ==
    LET u == [clearElements(clearNotify(g)) EXCEPT !.task = sEmpty]
    IN  IF task \notin Range(g.taskBox) THEN Throw("TypeError", u)
        ELSE reloadElements([u EXCEPT !.task = task])

\* selectShot (elo.js:455): after the tasks are reloaded, the user's own task
\* is selected when the shot has it.
selectShot(g, shot) ==
    LET u == [clearElements(clearTasks(clearNotify(g))) EXCEPT !.shot = sEmpty]
    IN  IF shot \notin Range(g.shotBox) THEN Throw("TypeError", u)
        ELSE Then(reloadTasks([u EXCEPT !.shot = shot]),
                  LAMBDA h :
                      IF h.mytask = sEmpty THEN Ok(h)
                      ELSE IF h.mytask \notin Range(siteTasksOf(h.site, h.project, shot))
                      THEN Ok(h)
                      ELSE LET r == selectTask(h, h.mytask)
                           IN  Ok(IF r.err # "" THEN notify(r.g, r.err) ELSE r.g))

\* selectProject (elo.js:426).
selectProject(g, prj) ==
    LET u == [clearElements(clearTasks(clearShots(clearNotify(g))))
                 EXCEPT !.project = sEmpty]
    IN  IF prj \notin Range(g.projectBox) THEN Throw("TypeError", u)
        ELSE reloadShots([u EXCEPT !.project = prj])

\* createProject (elo.js:368).
createProject(g, prj) ==
    LET c == siteCreateProject(g.site, prj)
    IN  IF c.err # "" THEN Throw(c.err, g)
        ELSE Then(reloadProjects([g EXCEPT !.site = c.t]),
                  LAMBDA h : selectProject(h, prj))

\* createShot (elo.js:375).
createShot(g, prj, shot) ==
    LET c == siteCreateShot(g.site, prj, shot)
    IN  IF c.err # "" THEN Throw(c.err, g)
        ELSE Then(reloadShots([g EXCEPT !.site = c.t]),
                  LAMBDA h : selectShot(h, shot))

\* The second half of createTask: createDefaultElements, reloadElements.
createTaskElements(g, prj, shot, task) ==
    LET c == siteCreateDefaultElements(g.site, prj, shot, task)
    IN  IF c.err # "" THEN Throw(c.err, g)
        ELSE reloadElements([g EXCEPT !.site = c.t])

\* createTask (elo.js:382).
createTask(g, prj, shot, task) ==
    LET c == siteCreateTask(g.site, prj, shot, task)
    IN  IF c.err # "" THEN Throw(c.err, g)
        ELSE Then(Then(reloadTasks([g EXCEPT !.site = c.t]),
                       LAMBDA h : selectTask(h, task)),
                  LAMBDA h : createTaskElements(h, prj, shot, task))

\* createElement (elo.js:391).
createElement(g, prj, shot, task, elem) ==
    LET c == siteCreateElement(g.site, prj, shot, task, elem)
    IN  IF c.err # "" THEN Throw(c.err, g)
        ELSE Then(reloadElements([g EXCEPT !.site = c.t]),
                  LAMBDA h : selectElement(h, elem))

\* pinProject, unpinProject, pinShot, unpinShot (elo.js:837-886).
pinProject(g, prj) == [g EXCEPT !.pinnedProject = @ \cup {prj}]
unpinProject(g, prj) == [g EXCEPT !.pinnedProject = @ \ {prj}]
pinShot(g, prj, shot) == [g EXCEPT !.pinnedShot = @ \cup {<<prj, shot>>}]
unpinShot(g, prj, shot) == [g EXCEPT !.pinnedShot = @ \ {<<prj, shot>>}]

\* try { ... } catch(err) { notify(err.message) }: the page after a handler.
Caught(r) == IF r.err # "" THEN notify(r.g, r.err) ELSE r.g

\* openModalEv(kind) and the createItem of its modal with the name typed
\* (elo.js:137-236).
openModal(g, kind, name) ==
    IF kind = "shot" /\ currentProject(g) = sEmpty
    THEN notify(g, "no project selected")
    ELSE IF kind = "task" /\ currentShot(g) = sEmpty
    THEN notify(g, "no shot selected")
    ELSE IF kind = "element" /\ currentTask(g) = sEmpty
    THEN (IF currentProject(g) # sEmpty /\ currentShot(g) # sEmpty /\ g.mytask # sEmpty
          THEN Caught(createTask(g, currentProject(g), currentShot(g), g.mytask))
          ELSE notify(g, "no task selected"))
    ELSE IF /\ kind = "element"
            /\ siteElementsOf(g.site, currentProject(g), currentShot(g),
                              currentTask(g)) = <<>>
    THEN LET c == siteCreateDefaultElements(g.site, currentProject(g), currentShot(g),
                                            currentTask(g))
             h == IF c.err # "" THEN notify(g, c.err) ELSE [g EXCEPT !.site = c.t]
         IN  reloadElements(h).g
    ELSE CASE kind = "project" -> Caught(createProject(g, name))
           [] kind = "shot" -> Caught(createShot(g, currentProject(g), name))
           [] kind = "task" ->
                  Caught(createTask(g, currentProject(g), currentShot(g), name))
           [] kind = "element" ->
                  Caught(createElement(g, currentProject(g), currentShot(g),
                                       currentTask(g), name))

\* The names typed into the modal, and the user's own task.
GuiProjects == {sA, sB}
GuiShots == {sA}
GuiTasks == {sComp}
GuiElements == {sB}
MyTasks == {sEmpty, sComp}

\* The page after init (elo.js:14-29) with no pins and no selection saved.
StartedGui(t, mytask) ==
    reloadProjects([started |-> TRUE, site |-> t,
                    projectBox |-> <<>>, project |-> sEmpty,
                    shotBox |-> <<>>, shot |-> sEmpty,
                    taskBox |-> <<>>, task |-> sEmpty,
                    elementBox |-> <<>>, element |-> sEmpty,
                    pinnedProject |-> {}, pinnedShot |-> {},
                    mytask |-> mytask, note |-> ""]).g

\* A site with project a, its shot a and the shot's task comp.
TreeWithTask ==
    [projects |-> {sA}, shots |-> {<<sA, sA>>}, tasks |-> {<<sA, sA, sComp>>},
     elems |-> {}]

InitGui ==
    /\ platform = "linux"
    /\ siteInfo = SiteInfoOf("own")
    /\ fs = EmptySite
    /\ made = 0
    /\ held = NoBranch
    /\ last = NoCall
    /\ scene = NoScene
    /\ ran = NoExec
    /\ child = NoChild
    /\ stderr = ""
    /\ calls = <<>>
    /\ env = SiteEnv
    /\ siteFile = siteInfo
    /\ init = Initialized
    /\ procs = NoProcs
    /\ gui \in {StartedGui(t, m) : t \in {EmptyTree, TreeWithTask}, m \in MyTasks}

GuiStep(g) ==
    /\ gui' = g
    /\ UNCHANGED <<branchVars, sceneVars, spawnVars, initVars, procs>>

\* The click handlers of the items (elo.js:415, 443, 485, 510).
selectProjectEv(prj) ==
    /\ prj \in Range(gui.projectBox)
    /\ GuiStep(Caught(selectProject(gui, prj)))

selectShotEv(shot) ==
    /\ shot \in Range(gui.shotBox)
    /\ GuiStep(Caught(selectShot(gui, shot)))

selectTaskEv(task) ==
    /\ task \in Range(gui.taskBox)
    /\ GuiStep(Caught(selectTask(gui, task)))

selectElementEv(elem) ==
    /\ elem \in Range(gui.elementBox)
    /\ GuiStep(Caught(selectElement(gui, elem)))

openModalEv(kind, name) == GuiStep(openModal(gui, kind, name))

\* The item of the context menu of a project (elo.js:51-82): pin or unpin,
\* then reloadProjects.
ProjectMenuClick(prj) ==
    /\ prj \in Range(gui.projectBox)
    /\ GuiStep(Caught(reloadProjects(IF prj \in gui.pinnedProject
                                     THEN unpinProject(gui, prj)
                                     ELSE pinProject(gui, prj))))

\* The item of the context menu of a shot (elo.js:84-117): pin or unpin under
\* the current project, then reloadShots.
ShotMenuClick(shot) ==
    /\ shot \in Range(gui.shotBox)
    /\ LET prj == currentProject(gui)
       IN  GuiStep(Caught(reloadShots(IF <<prj, shot>> \in gui.pinnedShot
                                      THEN unpinShot(gui, prj, shot)
                                      ELSE pinShot(gui, prj, shot))))

NextGui ==
    \/ \E prj \in GuiProjects : selectProjectEv(prj)
    \/ \E shot \in GuiShots : selectShotEv(shot)
    \/ \E task \in GuiTasks : selectTaskEv(task)
    \/ \E elem \in GuiElements \cup {sX} : selectElementEv(elem)
    \/ \E name \in GuiProjects : openModalEv("project", name)
    \/ \E name \in GuiShots : openModalEv("shot", name)
    \/ \E name \in GuiTasks : openModalEv("task", name)
    \/ \E name \in GuiElements : openModalEv("element", name)
    \/ \E prj \in GuiProjects : ProjectMenuClick(prj)
    \/ \E shot \in GuiShots : ShotMenuClick(shot)

SpecGui == InitGui /\ [][NextGui]_vars

\* C30: in the front-end the selection stays hierarchical: a selected element
\* comes with a selected task, a selected task with a selected shot, a
\* selected shot with a selected project, and a box holds items only while
\* the box above it has a selection.
C30_SelectionHierarchical ==
    /\ gui.element # sEmpty => gui.task # sEmpty
    /\ gui.task # sEmpty => gui.shot # sEmpty
    /\ gui.shot # sEmpty => gui.project # sEmpty
    /\ gui.shotBox # <<>> => gui.project # sEmpty
    /\ gui.taskBox # <<>> => gui.shot # sEmpty
    /\ gui.elementBox # <<>> => gui.task # sEmpty

====
